---- MODULE Spec2Model ----
(***************************************************************************)
(* Model of the exchange-rate news briefing service (Next.js route         *)
(* handlers): the analyze route with its unstable_cache wrapper, the rate  *)
(* route, the two cache-invalidation routes, and the news aggregation /    *)
(* enrichment / synthesis pipeline.                                        *)
(*                                                                         *)
(* Eight specifications share the variables:                                *)
(*   Spec      requests against the cached analyze route and the           *)
(*             invalidation routes, interleaved at their awaits;           *)
(*   SpecAgg   the merge / deduplicate / sort step applied to bounded      *)
(*             search results;                                             *)
(*   SpecCrawl the crawl loop over the deduplicated list, fetch by fetch;  *)
(*   SpecPipe  one run of performAnalysis under the GET handler of the     *)
(*             analyze route, await by await;                              *)
(*   SpecAuth  POST requests against the two invalidation routes under a   *)
(*             fixed environment;                                          *)
(*   SpecText  stripHtml applied to bounded texts;                         *)
(*   SpecPrompt the truncation of article texts, the prompt and the report *)
(*             counts over lists longer than the prompt takes;             *)
(*   SpecRate  the parse of a rate listing by both routes.                 *)
(***************************************************************************)
EXTENDS Integers, Sequences, FiniteSets, TLC

VARIABLES
    \* Spec
    now, sub, cache, req, out, inval, replaced, isCached,
    \* SpecAgg
    aggApi, aggFinance, aggRoute, aggOut,
    \* SpecCrawl
    uniqueNews, crawledNews, batchStart, crawlResults, crawlOrder, crawlPc, crawlLast,
    \* SpecPipe
    pipePc, currentRate, pipeSearch, pipeFinance, pipeUnique, pipeCrawled,
    pipePrompt, pipeCompletion, pipeResp, pipeRateResp, pipeCalls, pipeKey, pipeStored,
    \* SpecAuth
    authEnv, authCache, authOut, authBefore,
    \* SpecText
    textIn, textOut, textTwice, textPc,
    \* SpecPrompt
    promptCalls, promptNews, promptOut, promptReport, promptPc,
    \* SpecRate
    rateRows, rateParsed, ratePc

cacheVars == <<now, sub, cache, req, out, inval, replaced, isCached>>
aggVars == <<aggApi, aggFinance, aggRoute, aggOut>>
crawlVars == <<uniqueNews, crawledNews, batchStart, crawlResults, crawlOrder, crawlPc,
               crawlLast>>

pipeVars == <<pipePc, currentRate, pipeSearch, pipeFinance, pipeUnique, pipeCrawled,
              pipePrompt, pipeCompletion, pipeResp, pipeRateResp, pipeCalls, pipeKey,
              pipeStored>>

authVars == <<authEnv, authCache, authOut, authBefore>>
textVars == <<textIn, textOut, textTwice, textPc>>
promptVars == <<promptCalls, promptNews, promptOut, promptReport, promptPc>>
rateVars == <<rateRows, rateParsed, ratePc>>

notCacheVars == <<aggVars, crawlVars, pipeVars, authVars, textVars, promptVars, rateVars>>
notAggVars == <<cacheVars, crawlVars, pipeVars, authVars, textVars, promptVars, rateVars>>
notCrawlVars == <<cacheVars, aggVars, pipeVars, authVars, textVars, promptVars, rateVars>>
notPipeVars == <<cacheVars, aggVars, crawlVars, authVars, textVars, promptVars, rateVars>>
notAuthVars == <<cacheVars, aggVars, crawlVars, pipeVars, textVars, promptVars, rateVars>>
notTextVars == <<cacheVars, aggVars, crawlVars, pipeVars, authVars, promptVars, rateVars>>
notPromptVars == <<cacheVars, aggVars, crawlVars, pipeVars, authVars, textVars, rateVars>>
notRateVars == <<cacheVars, aggVars, crawlVars, pipeVars, authVars, textVars, promptVars>>

vars == <<cacheVars, aggVars, crawlVars, pipeVars, authVars, textVars, promptVars, rateVars>>

----------------------------------------------------------------------------
(* Bounds of the model *)

MaxReq == 2        \* request slots that may be in flight together
MaxTime == 1000    \* the wall clock stops advancing here
TickStep == 250    \* seconds by which one Tick advances the wall clock
MaxSub == 1        \* Date.now() readings told apart within one clock value
MaxLinks == 2      \* distinct article links the searches may return
MaxDate == 2       \* distinct publication times
MaxApi == 3        \* items the keyword searches return in all (SpecAgg)
MaxFinance == 1    \* items the finance listing returns (SpecAgg)
MaxNews == 7       \* length of the deduplicated list (SpecCrawl)
MaxLen == 4        \* tokens of a text given to stripHtml (SpecText)
MaxArticles == 52  \* length of the deduplicated list (SpecPrompt)
MaxRows == 2       \* rows of a rate listing (SpecRate)

----------------------------------------------------------------------------
(* Program constants *)

CACHE_TAG == "exchange-rate-analysis"
RATE_CACHE_TAG == "exchange-rate"
REVALIDATE_ANALYSIS == 600
REVALIDATE_RATE == 60
NUM_KEYWORDS == 5          \* SEARCH_KEYWORDS of the analyze route
NUM_KEYWORDS_NEWS == 4     \* SEARCH_KEYWORDS of the news route
batchSize == 5
MAX_NEWS_FOR_ANALYSIS == 50
MAX_CONTENT_LENGTH == 1000
MAX_CRAWLED_CONTENT == 3000    \* content.trim().substring(0, 3000)

CACHE_TAGS == {CACHE_TAG, RATE_CACHE_TAG}

Revalidate(tag) == IF tag = CACHE_TAG THEN REVALIDATE_ANALYSIS ELSE REVALIDATE_RATE

----------------------------------------------------------------------------
(* Values *)

Slots == 1..MaxReq
NoEntry == [none |-> TRUE]
NoOut == [kind |-> "none"]
NoReport == [none |-> TRUE]
NoLast == [none |-> TRUE]

\* new Date().toISOString(): the clock value and the order of the reading
\* within that clock value
GenAt(t, k) == [t |-> t, k |-> k]

\* what a run of the cached function returns: the analysis report of
\* performAnalysis or the rate listing of fetchExchangeRates, reduced to its
\* generation stamp
MkReport == [none |-> FALSE, generatedAt |-> GenAt(now, sub + 1)]

----------------------------------------------------------------------------
(* next/cache as the routes use it *)

\* the entry unstable_cache keeps under a key: the value the wrapped function
\* returned and the time it was stored
Entry(rep) == [none |-> FALSE, value |-> rep, createdAt |-> now]

\* mutant of IsStale: every entry is given the rate route's period
IsStale_ratePeriod(tag) == now - cache[tag].createdAt > REVALIDATE_RATE

\* revalidate: 600 / revalidate: 60 - an entry older than its revalidate
\* period is stale
IsStale(tag) == now - cache[tag].createdAt > Revalidate(tag)

\* mutant of cacheNewResult: a value is not stored over an entry that is
\* still within its revalidate period
cacheNewResult_firstWins(tag, rep) ==
    IF cache[tag] # NoEntry /\ now - cache[tag].createdAt <= Revalidate(tag)
    THEN cache
    ELSE [cache EXCEPT ![tag] = Entry(rep)]

\* unstable_cache stores the value the wrapped function resolved with,
\* replacing whatever the key held
cacheNewResult(tag, rep) == [cache EXCEPT ![tag] = Entry(rep)]

\* mutant of revalidateTag: the entries are left as they are
revalidateTag_keeps(c, tag) == c

\* revalidateTag(tag, { expire: 0 }): the entries carrying the tag expire at
\* once; a tag no entry carries changes nothing
revalidateTag(c, tag) == [t \in CACHE_TAGS |-> IF t = tag THEN NoEntry ELSE c[t]]

----------------------------------------------------------------------------
(* Responses: out is the response sent last *)

\* NextResponse.json({ success: true, data, cached, timing })
Ok(tag, refresh, rep) ==
    [kind |-> "get", tag |-> tag, refresh |-> refresh,
     success |-> TRUE, status |-> 200, data |-> rep]

\* NextResponse.json({ success: false, error }, { status: 500 })
Failed(tag, refresh) ==
    [kind |-> "get", tag |-> tag, refresh |-> refresh,
     success |-> FALSE, status |-> 500, data |-> NoReport]

IdleReq == [pc |-> "idle", tag |-> CACHE_TAG, refresh |-> FALSE, startTime |-> 0]

\* the variables of Spec while another specification runs
CacheOff ==
    /\ now = 0
    /\ sub = 0
    /\ cache = [t \in CACHE_TAGS |-> NoEntry]
    /\ req = [s \in Slots |-> IdleReq]
    /\ out = NoOut
    /\ inval = [t \in CACHE_TAGS |-> NoReport]
    /\ replaced = FALSE
    /\ isCached = FALSE

\* the variables of SpecAuth while another specification runs
AuthOff ==
    /\ authEnv = [production |-> FALSE, cronSecret |-> "unset"]
    /\ authCache = [t \in CACHE_TAGS |-> NoEntry]
    /\ authOut = NoOut
    /\ authBefore = [t \in CACHE_TAGS |-> NoEntry]

\* the variables of SpecText while another specification runs
TextOff ==
    /\ textIn = <<>>
    /\ textOut = <<>>
    /\ textTwice = <<>>
    /\ textPc = "off"

\* the variables of SpecPrompt while another specification runs
PromptOff ==
    /\ promptCalls = <<>>
    /\ promptNews = <<>>
    /\ promptOut = [none |-> TRUE]
    /\ promptReport = [none |-> TRUE]
    /\ promptPc = "off"

\* the variables of SpecRate while another specification runs
RateOff ==
    /\ rateRows = <<>>
    /\ rateParsed = <<>>
    /\ ratePc = "off"

\* the variables of SpecAgg while another specification runs
AggOff ==
    /\ aggApi = <<>>
    /\ aggFinance = <<>>
    /\ aggRoute = "none"
    /\ aggOut = <<>>

\* the variables of SpecCrawl while another specification runs
CrawlOff ==
    /\ uniqueNews = <<>>
    /\ crawledNews = <<>>
    /\ batchStart = 0
    /\ crawlResults = <<>>
    /\ crawlOrder = <<>>
    /\ crawlPc = "off"
    /\ crawlLast = NoLast

NoResponse == [sent |-> FALSE]
NoPrompt == [none |-> TRUE]
NoCompletion == [none |-> TRUE]
NoRate == [none |-> TRUE]
NoFetchYet == [kind |-> "none"]

\* the variables of SpecPipe while another specification runs
PipeOff ==
    /\ pipePc = "off"
    /\ currentRate = NoRate
    /\ pipeSearch = <<>>
    /\ pipeFinance = <<>>
    /\ pipeUnique = <<>>
    /\ pipeCrawled = <<>>
    /\ pipePrompt = NoPrompt
    /\ pipeCompletion = NoCompletion
    /\ pipeResp = NoResponse
    /\ pipeRateResp = NoFetchYet
    /\ pipeCalls = {}
    /\ pipeKey = "unread"
    /\ pipeStored = NoEntry

----------------------------------------------------------------------------
(* Spec: the cached analyze route and the invalidation routes *)

\* the cached routes whose GET requests Spec issues
CachedRoutes == {CACHE_TAG}

InitCache ==
    /\ CacheOff
    /\ AggOff
    /\ CrawlOff
    /\ PipeOff
    /\ AuthOff
    /\ TextOff
    /\ PromptOff
    /\ RateOff

\* the wall clock advances; readings of Date.now() within one clock value are
\* counted from 0 again
Tick ==
    /\ now + TickStep <= MaxTime
    /\ now' = now + TickStep
    /\ sub' = 0
    /\ UNCHANGED <<cache, req, out, inval, replaced, isCached>>
    /\ UNCHANGED notCacheVars

Free(s) == req[s].pc = "idle"

\* the response time below which a non-refresh answer is taken for a cache
\* hit: 1000 ms in the analyze route, 500 ms in the rate route
CachedThreshold(tag) == IF tag = CACHE_TAG THEN 1000 ELSE 500

\* the cached field of a success response: false under refresh=true, else
\* whether the handler answered in less than the threshold
\* (isCached = duration < 1000)
CachedFlag(tag, refresh, duration) == ~refresh /\ duration < CachedThreshold(tag)

Begin(s, tag, refresh, pc) ==
    req' = [req EXCEPT ![s] = [pc |-> pc, tag |-> tag, refresh |-> refresh,
                               startTime |-> now]]

\* GET ?refresh=true: performAnalysis() / fetchExchangeRates() is called
\* directly, the cache is not consulted
GetRefresh(s, tag) ==
    /\ Free(s)
    /\ Begin(s, tag, TRUE, "run")
    /\ UNCHANGED <<now, sub, cache, out, inval, replaced, isCached>>
    /\ UNCHANGED notCacheVars

\* GET, entry present and within its revalidate period: the stored value is
\* returned, the wrapped function is not called
GetHit(s, tag) ==
    /\ Free(s)
    /\ cache[tag] # NoEntry
    /\ ~IsStale(tag)
    /\ out' = Ok(tag, FALSE, cache[tag].value)
    /\ isCached' = CachedFlag(tag, FALSE, 0)
    /\ UNCHANGED <<now, sub, cache, req, inval, replaced>>
    /\ UNCHANGED notCacheVars

\* GET, entry present but older than its revalidate period: the stale value
\* is returned and the wrapped function is started in the background
GetStale(s, tag) ==
    /\ Free(s)
    /\ cache[tag] # NoEntry
    /\ IsStale(tag)
    /\ Begin(s, tag, FALSE, "bg")
    /\ out' = Ok(tag, FALSE, cache[tag].value)
    /\ isCached' = CachedFlag(tag, FALSE, 0)
    /\ UNCHANGED <<now, sub, cache, inval, replaced>>
    /\ UNCHANGED notCacheVars

\* GET, no entry (never stored, or expired by revalidateTag): the wrapped
\* function is called and awaited
GetMiss(s, tag) ==
    /\ Free(s)
    /\ cache[tag] = NoEntry
    /\ Begin(s, tag, FALSE, "run")
    /\ UNCHANGED <<now, sub, cache, out, inval, replaced, isCached>>
    /\ UNCHANGED notCacheVars

\* mutant of StoreOnSuccess: a force-refresh run stores its value too
StoreOnSuccess_always(s, rep) == cacheNewResult(req[s].tag, rep)

\* what a resolved run leaves in the cache: getCachedAnalysis() stores the
\* value, a direct performAnalysis() call (refresh) stores nothing
StoreOnSuccess(s, rep) ==
    IF req[s].refresh THEN cache ELSE cacheNewResult(req[s].tag, rep)

\* the wrapped function resolves: a run under unstable_cache stores its
\* value, a force-refresh run only returns it
RunSucceed(s) ==
    /\ req[s].pc \in {"run", "bg"}
    /\ sub < MaxSub
    /\ sub' = sub + 1
    /\ LET rep == MkReport
           tag == req[s].tag
       IN /\ cache' = StoreOnSuccess(s, rep)
          /\ out' = IF req[s].pc = "run" THEN Ok(tag, req[s].refresh, rep) ELSE out
          /\ isCached' = IF req[s].pc = "run"
                          THEN CachedFlag(tag, req[s].refresh, now - req[s].startTime)
                          ELSE isCached
          /\ replaced' = (~req[s].refresh /\ cache[tag] # NoEntry /\ ~IsStale(tag))
    /\ req' = [req EXCEPT ![s] = IdleReq]
    /\ UNCHANGED <<now, inval>>
    /\ UNCHANGED notCacheVars

\* the wrapped function rejects: nothing is stored; the handler's catch
\* answers 500, a background revalidation only logs
RunFail(s) ==
    /\ req[s].pc \in {"run", "bg"}
    /\ out' = IF req[s].pc = "run" THEN Failed(req[s].tag, req[s].refresh) ELSE out
    /\ req' = [req EXCEPT ![s] = IdleReq]
    /\ UNCHANGED <<now, sub, cache, inval, replaced, isCached>>
    /\ UNCHANGED notCacheVars

----------------------------------------------------------------------------
(* The invalidation routes *)

\* process.env as the invalidation routes read it
Envs == [production : BOOLEAN, cronSecret : {"unset", "s3cret"}]

\* the Authorization headers a caller may send
Headers == {"none", "Bearer s3cret", "Bearer undefined"}

\* `Bearer ${process.env.CRON_SECRET}`
Bearer(secret) == IF secret = "unset" THEN "Bearer undefined" ELSE "Bearer s3cret"

\* ?tag= values: the two cache tags, a tag no entry carries, the parameter
\* given with an empty value, and no parameter (searchParams.get gives null)
TagParams == CACHE_TAGS \cup {"other-tag", "", "none"}

\* mutant of ClearedTags: every tag is revalidated whatever the parameter
ClearedTags_all(param) == CACHE_TAGS

\* the tags the handler revalidates: the given tag if (tag) holds, which it
\* does not for null and for the empty string, or else every CACHE_TAGS value
ClearedTags(param) == IF param \notin {"none", ""} THEN {param} ELSE CACHE_TAGS

\* the 401 guard of the tag-or-all invalidation route
UnauthorizedAll(e, header) ==
    e.production /\ e.cronSecret # "unset" /\ header # Bearer(e.cronSecret)

\* the 401 guard of the cache/clear route
UnauthorizedClear(e, header) ==
    e.production /\ header # Bearer(e.cronSecret)

Unauthorized401(route) ==
    [kind |-> "invalidate", route |-> route,
     success |-> FALSE, status |-> 401, clearedTags |-> {}]

Cleared(route, tags) ==
    [kind |-> "invalidate", route |-> route,
     success |-> TRUE, status |-> 200, clearedTags |-> tags]

\* revalidateTag over a set of tags, with the ghost record of what each
\* invalidated tag held
Invalidate(tags) ==
    /\ cache' = [t \in CACHE_TAGS |-> IF t \in tags THEN revalidateTag(cache, t)[t] ELSE cache[t]]
    /\ inval' = [t \in CACHE_TAGS |->
                   IF t \in tags /\ cache[t] # NoEntry THEN cache[t].value ELSE inval[t]]

\* POST (or GET) of the tag-or-all invalidation route; the environment and the
\* header of the request decide only whether the 401 guard fires
InvalidatePost(param, unauthorized) ==
    /\ {eh \in Envs \X Headers : UnauthorizedAll(eh[1], eh[2]) = unauthorized} # {}
    /\ IF unauthorized
       THEN /\ out' = Unauthorized401("invalidate")
            /\ UNCHANGED <<cache, inval>>
       ELSE /\ Invalidate(ClearedTags(param))
            /\ out' = Cleared("invalidate", ClearedTags(param))
    /\ UNCHANGED <<now, sub, req, replaced, isCached>>
    /\ UNCHANGED notCacheVars

\* POST of the cache/clear route: the analysis tag only
ClearPost(unauthorized) ==
    /\ {eh \in Envs \X Headers : UnauthorizedClear(eh[1], eh[2]) = unauthorized} # {}
    /\ IF unauthorized
       THEN /\ out' = Unauthorized401("clear")
            /\ UNCHANGED <<cache, inval>>
       ELSE /\ Invalidate({CACHE_TAG})
            /\ out' = Cleared("clear", {CACHE_TAG})
    /\ UNCHANGED <<now, sub, req, replaced, isCached>>
    /\ UNCHANGED notCacheVars

NextCache ==
    \/ Tick
    \/ \E s \in Slots, tag \in CachedRoutes : GetRefresh(s, tag)
    \/ \E s \in Slots, tag \in CachedRoutes : GetHit(s, tag)
    \/ \E s \in Slots, tag \in CachedRoutes : GetStale(s, tag)
    \/ \E s \in Slots, tag \in CachedRoutes : GetMiss(s, tag)
    \/ \E s \in Slots : RunSucceed(s)
    \/ \E s \in Slots : RunFail(s)
    \/ \E param \in TagParams, unauthorized \in BOOLEAN : InvalidatePost(param, unauthorized)
    \/ \E unauthorized \in BOOLEAN : ClearPost(unauthorized)

Spec == InitCache /\ [][NextCache]_vars

TypeOK ==
    /\ now \in 0..MaxTime
    /\ sub \in 0..MaxSub
    /\ \A s \in Slots : req[s].pc \in {"idle", "run", "bg"}

----------------------------------------------------------------------------
(* News items and the merge / deduplicate / sort step *)

Links == 1..MaxLinks
Dates == 1..MaxDate

\* new Date() in fetchNaverFinanceNews: later than every publication time
NowDate == MaxDate + 1

\* NaverNewsItem: link is the key of the deduplication, pubDate the parsed
\* publication time; the title stands for title, originallink and description
Items == [link : Links, title : {"api", "finance"}, pubDate : Dates \cup {NowDate}]

\* the items a keyword search can return
ApiItems == {it \in Items : it.title = "api" /\ it.pubDate \in Dates}

\* the items the finance listing can return: the title of the page's anchor,
\* pubDate the time of the fetch
FinanceItems == {it \in Items : it.title = "finance" /\ it.pubDate = NowDate}

\* the sequences over S of length at most n
SeqsUpTo(S, n) == UNION {[1..k -> S] : k \in 0..n}

\* Array.prototype.flat() of an array of arrays
RECURSIVE Flat(_)
Flat(ss) == IF ss = <<>> THEN <<>> ELSE Head(ss) \o Flat(Tail(ss))

\* mutant of MapSet: an existing key keeps the value it was first given
MapSet_keepFirst(m, k, v) ==
    IF \E i \in 1..Len(m) : m[i][1] = k THEN m ELSE Append(m, <<k, v>>)

\* Map.prototype.set: an existing key keeps its place in the insertion order
\* and takes the new value, a new key is appended
MapSet(m, k, v) ==
    IF \E i \in 1..Len(m) : m[i][1] = k
    THEN [i \in 1..Len(m) |-> IF m[i][1] = k THEN <<k, v>> ELSE m[i]]
    ELSE Append(m, <<k, v>>)

\* new Map(entries): the entries are set one after the other
RECURSIVE NewMap(_, _)
NewMap(m, entries) ==
    IF entries = <<>> THEN m
    ELSE NewMap(MapSet(m, Head(entries)[1], Head(entries)[2]), Tail(entries))

\* Array.from(map.values())
MapValues(m) == [i \in 1..Len(m) |-> m[i][2]]

\* Array.from(new Map(allNews.map(item => [item.link, item])).values())
DedupByLink(allNews) ==
    MapValues(NewMap(<<>>, [i \in 1..Len(allNews) |-> <<allNews[i].link, allNews[i]>>]))

\* mutant of InsertByDate: the later date goes to the back
InsertByDate_ascending(sorted, x) ==
    LET before == {i \in 1..Len(sorted) : sorted[i].pubDate <= x.pubDate}
        n == Cardinality(before)
    IN SubSeq(sorted, 1, n) \o <<x>> \o SubSeq(sorted, n + 1, Len(sorted))

\* one insertion of the stable sort under (a, b) => date(b) - date(a): x goes
\* behind every element whose date is not earlier than its own
InsertByDate(sorted, x) ==
    LET before == {i \in 1..Len(sorted) : sorted[i].pubDate >= x.pubDate}
        n == Cardinality(before)
    IN SubSeq(sorted, 1, n) \o <<x>> \o SubSeq(sorted, n + 1, Len(sorted))

\* uniqueNews.sort((a, b) => new Date(b.pubDate) - new Date(a.pubDate))
RECURSIVE SortByDateDesc(_, _)
SortByDateDesc(sorted, rest) ==
    IF rest = <<>> THEN sorted
    ELSE SortByDateDesc(InsertByDate(sorted, Head(rest)), Tail(rest))

\* performAnalysis: [...apiNewsResults.flat(), ...financeNews]
MergeAnalyze(apiNewsResults, financeNews) == Flat(apiNewsResults) \o financeNews

\* performAnalysis: the list handed to the crawl loop - merged and
\* deduplicated, not sorted
AggregateAnalyze(apiNewsResults, financeNews) ==
    DedupByLink(MergeAnalyze(apiNewsResults, financeNews))

\* GET of the news route: the list handed to the crawl loop - flattened,
\* deduplicated, sorted by date
AggregateNews(newsResults) == SortByDateDesc(<<>>, DedupByLink(Flat(newsResults)))

----------------------------------------------------------------------------
(* SpecAgg: the aggregation of both routes applied to bounded search results *)

\* the results of the keyword searches: the first keyword returns the first
\* cut items of flat, the second the others, the remaining keywords nothing
KeywordResults(flat, cut) ==
    <<SubSeq(flat, 1, cut), SubSeq(flat, cut + 1, Len(flat))>>
        \o [k \in 1..(NUM_KEYWORDS - 2) |-> <<>>]

InitAgg ==
    /\ \E flat \in SeqsUpTo(ApiItems, MaxApi) : \E cut \in 0..Len(flat) :
           aggApi = KeywordResults(flat, cut)
    /\ aggFinance \in SeqsUpTo(FinanceItems, MaxFinance)
    /\ aggRoute = "none"
    /\ aggOut = <<>>
    /\ CacheOff
    /\ CrawlOff
    /\ PipeOff
    /\ AuthOff
    /\ TextOff
    /\ PromptOff
    /\ RateOff

\* performAnalysis, from the resolved searches to uniqueNews
AggAnalyze ==
    /\ aggRoute = "none"
    /\ aggRoute' = "analyze"
    /\ aggOut' = AggregateAnalyze(aggApi, aggFinance)
    /\ UNCHANGED <<aggApi, aggFinance>>
    /\ UNCHANGED notAggVars

\* GET of the news route, from the resolved searches to the sorted uniqueNews;
\* its four keywords are the first four of the analyze route
AggNews ==
    /\ aggRoute = "none"
    /\ aggRoute' = "news"
    /\ aggOut' = AggregateNews(SubSeq(aggApi, 1, NUM_KEYWORDS_NEWS))
    /\ UNCHANGED <<aggApi, aggFinance>>
    /\ UNCHANGED notAggVars

NextAgg == AggAnalyze \/ AggNews

SpecAgg == InitAgg /\ [][NextAgg]_vars

----------------------------------------------------------------------------
(* SpecCrawl: the crawl loop of performAnalysis (and of the news route) *)

\* what a fetch may meet: a success response with the parsed items, a
\* non-success response, or an exception (transport, body parsing)
NotOk == [kind |-> "not-ok"]
Throws == [kind |-> "throws"]
OkItems(items) == [kind |-> "ok", items |-> items]
NoFetch == [kind |-> "no-fetch"]

\* what crawlNaverNews resolves to: null (a link outside news.naver.com, a
\* non-success response, an exception), or the extracted fields, whose
\* content may be empty
NullCrawl == [null |-> TRUE]
Crawled(content) == [null |-> FALSE, content |-> content]
CrawlOutcomes == {NullCrawl, Crawled(""), Crawled("text")}
Pending == [pending |-> TRUE]

\* a success response with the text of the article element that matched (''
\* when none did)
OkPage(text) == [kind |-> "ok", text |-> text]

\* article texts: none, blank, and a text with blanks around it
PageTexts == {"", " ", " text "}

\* String.prototype.trim: the blanks at both ends are dropped
RECURSIVE Trim(_)
Trim(text) ==
    IF text = "" THEN ""
    ELSE IF SubSeq(text, 1, 1) = " " THEN Trim(SubSeq(text, 2, Len(text)))
    ELSE IF SubSeq(text, Len(text), Len(text)) = " "
         THEN Trim(SubSeq(text, 1, Len(text) - 1))
    ELSE text

\* mutant of Substring: the text is not cut
Substring_whole(text, n) == text

\* text.substring(0, n)
Substring(text, n) == SubSeq(text, 1, IF n < Len(text) THEN n ELSE Len(text))

\* url.includes('news.naver.com')
NaverHost == "news.naver.com"
Hosts == {NaverHost, "other"}

\* mutant of IssuesFetch: the request is sent whatever the link
IssuesFetch_always(host) == TRUE

\* crawlNaverNews reaches its fetch only past the early return for a link
\* that does not include news.naver.com
IssuesFetch(host) == host = NaverHost

\* a call of crawlNaverNews: the host of the link and what the fetch meets;
\* there is no fetch for a link outside news.naver.com
CrawlCalls ==
    {[host |-> "other", resp |-> NoFetch]}
        \cup {[host |-> NaverHost, resp |-> r] :
                  r \in {NotOk, Throws} \cup {OkPage(t) : t \in PageTexts}}

\* mutant of crawlNaverNews: the text is not trimmed
crawlNaverNews_untrimmed(host, resp) ==
    IF host # NaverHost THEN NullCrawl
    ELSE IF resp.kind = "ok" THEN Crawled(Substring(resp.text, MAX_CRAWLED_CONTENT))
    ELSE NullCrawl

\* crawlNaverNews: null for a link outside news.naver.com, for a non-success
\* response and from the catch; else content.trim().substring(0, 3000)
crawlNaverNews(host, resp) ==
    IF host # NaverHost THEN NullCrawl
    ELSE IF resp.kind = "ok"
         THEN Crawled(Substring(Trim(resp.text), MAX_CRAWLED_CONTENT))
    ELSE NullCrawl


\* the CrawledNewsItem built by the callback of batch.map:
\* content: crawled?.content || '', isCrawled: !!crawled?.content
CrawledNewsItem(news, crawled) ==
    [url |-> news.link,
     content |-> IF crawled.null THEN "" ELSE crawled.content,
     isCrawled |-> ~crawled.null /\ crawled.content # ""]

\* mutant of Batch: the slice takes one item more than batchSize
Batch_wide(news, i) ==
    SubSeq(news, i + 1, IF i + batchSize + 1 < Len(news) THEN i + batchSize + 1 ELSE Len(news))

\* uniqueNews.slice(i, i + batchSize), i counted from 0
Batch(news, i) ==
    SubSeq(news, i + 1, IF i + batchSize < Len(news) THEN i + batchSize ELSE Len(news))

\* mutant of Collect: the results in the order in which the fetches resolved
Collect_completionOrder(batch, results, order) ==
    [k \in 1..Len(batch) |-> CrawledNewsItem(batch[order[k]], results[order[k]])]

\* await Promise.all(crawlPromises): the results by position in the batch
Collect(batch, results, order) ==
    [k \in 1..Len(batch) |-> CrawledNewsItem(batch[k], results[k])]

\* the deduplicated list: its k-th item carries the k-th distinct link
InitCrawl ==
    /\ \E n \in 0..MaxNews : uniqueNews = [k \in 1..n |-> [link |-> k]]
    /\ crawledNews = <<>>
    /\ batchStart = 0
    /\ crawlResults = <<>>
    /\ crawlOrder = <<>>
    /\ crawlPc = "loop"
    /\ crawlLast = NoLast
    /\ CacheOff
    /\ AggOff
    /\ PipeOff
    /\ AuthOff
    /\ TextOff
    /\ PromptOff
    /\ RateOff

\* the loop test holds: the batch is sliced and one crawlNaverNews call is
\* started for each of its items
StartBatch ==
    /\ crawlPc = "loop"
    /\ batchStart < Len(uniqueNews)
    /\ crawlResults' = [j \in 1..Len(Batch(uniqueNews, batchStart)) |-> Pending]
    /\ crawlOrder' = <<>>
    /\ crawlPc' = "fetching"
    /\ crawlLast' = NoLast
    /\ UNCHANGED <<uniqueNews, crawledNews, batchStart>>
    /\ UNCHANGED notCrawlVars

\* the crawlNaverNews call of the j-th item of the batch resolves; crawlLast
\* keeps what that call met
FetchDone(j, host, resp) ==
    /\ crawlPc = "fetching"
    /\ j \in 1..Len(crawlResults)
    /\ crawlResults[j] = Pending
    /\ crawlResults' = [crawlResults EXCEPT ![j] = crawlNaverNews(host, resp)]
    /\ crawlOrder' = Append(crawlOrder, j)
    /\ crawlLast' = [none |-> FALSE, j |-> j, host |-> host, resp |-> resp,
                     fetched |-> IssuesFetch(host)]
    /\ UNCHANGED <<uniqueNews, crawledNews, batchStart, crawlPc>>
    /\ UNCHANGED notCrawlVars

\* Promise.all resolves once every call of the batch has; the results are
\* pushed and i += batchSize
BatchDone ==
    /\ crawlPc = "fetching"
    /\ \A j \in 1..Len(crawlResults) : crawlResults[j] # Pending
    /\ crawledNews' = crawledNews
           \o Collect(Batch(uniqueNews, batchStart), crawlResults, crawlOrder)
    /\ batchStart' = batchStart + batchSize
    /\ crawlPc' = "loop"
    /\ UNCHANGED <<uniqueNews, crawlResults, crawlOrder, crawlLast>>
    /\ UNCHANGED notCrawlVars

\* mutant of LoopExit: the loop is left when fewer than batchSize items
\* follow the next batch start
LoopExit_early ==
    /\ crawlPc = "loop"
    /\ ~(batchStart + batchSize < Len(uniqueNews))
    /\ crawlPc' = "done"
    /\ UNCHANGED <<uniqueNews, crawledNews, batchStart, crawlResults, crawlOrder, crawlLast>>
    /\ UNCHANGED notCrawlVars

\* the loop test fails
LoopExit ==
    /\ crawlPc = "loop"
    /\ ~(batchStart < Len(uniqueNews))
    /\ crawlPc' = "done"
    /\ UNCHANGED <<uniqueNews, crawledNews, batchStart, crawlResults, crawlOrder, crawlLast>>
    /\ UNCHANGED notCrawlVars

NextCrawl ==
    \/ StartBatch
    \/ \E j \in 1..batchSize, call \in CrawlCalls : FetchDone(j, call.host, call.resp)
    \/ BatchDone
    \/ LoopExit

SpecCrawl == InitCrawl /\ [][NextCrawl]_vars

\* the crawl loop when every fetch issued settles in the end and the event
\* loop runs every continuation that is ready
SpecCrawlFair == SpecCrawl /\ WF_vars(NextCrawl)

----------------------------------------------------------------------------
(* Promises, JS objects, and the calls of the pipeline *)

Rejected(error) == [rejected |-> TRUE, error |-> error]
Resolved(value) == [rejected |-> FALSE, value |-> value]

\* a call that has settled: what the remote end did and what the caller's
\* promise settled to
Settled(resp, promise) == [pending |-> FALSE, resp |-> resp, promise |-> promise]

\* fetchNews: throws without credentials before any fetch, throws on a
\* non-success response, an exception of fetch or response.json() propagates
fetchNews(credentials, resp) ==
    IF ~credentials THEN Rejected("Naver API credentials not configured")
    ELSE IF resp.kind = "ok" THEN Resolved(resp.items)
    ELSE IF resp.kind = "not-ok" THEN Rejected("Naver API error")
    ELSE Rejected("fetch failed")

\* mutant of fetchNaverFinanceNews: a failure of the listing page propagates
fetchNaverFinanceNews_throws(resp) ==
    IF resp.kind = "ok" THEN Resolved(resp.items) ELSE Rejected("finance news failed")

\* fetchNaverFinanceNews: [] on a non-success response and on any exception
fetchNaverFinanceNews(resp) ==
    IF resp.kind = "ok" THEN Resolved(resp.items) ELSE Resolved(<<>>)

\* a row of #exchangeList: the currency of its FX_<cur>KRW link, the parsed
\* value and change, the trend class of .head_info, the text of .time
RateRow(cur, cls) == [cur |-> cur, rate |-> 1, change |-> 1, cls |-> cls, time |-> "09:00"]

\* a success response with the rows of the listing
OkListing(rows) == [kind |-> "ok", rows |-> rows]

\* $el.find('.head_info').hasClass(c): c is one of the classes of the row,
\* which carries none, one or both of point_up and point_dn
HasClass(row, c) == row.cls = c \/ row.cls = "point_up point_dn"

\* rates[currencyKey] = {rate, change: isDown ? -change : change, trend},
\* change being the number parsed from the .change text, trend being
\* isUp ? 'up' : isDown ? 'down' : 'stable'
ParseRow(row) ==
    [rate |-> row.rate,
     change |-> IF HasClass(row, "point_dn") THEN 0 - row.change ELSE row.change,
     trend |-> IF HasClass(row, "point_up") THEN "up"
               ELSE IF HasClass(row, "point_dn") THEN "down" ELSE "stable"]

\* the rates object after the each() loop: a later row of a currency
\* overwrites an earlier one
RatesOf(rows) ==
    [c \in {rows[i].cur : i \in 1..Len(rows)} |->
        ParseRow(rows[CHOOSE i \in 1..Len(rows) :
                         /\ rows[i].cur = c
                         /\ \A j \in 1..Len(rows) : rows[j].cur = c => j <= i])]

\* time: the .time text of the first row that has one
TimeOf(rows) ==
    IF \E i \in 1..Len(rows) : rows[i].time # ""
    THEN rows[CHOOSE i \in 1..Len(rows) :
                  /\ rows[i].time # ""
                  /\ \A j \in 1..Len(rows) : rows[j].time # "" => i <= j].time
    ELSE ""

\* mutant of RateOr0: an instrument that is not listed yields no number
RateOr0_undefined(rates, cur, field) ==
    IF cur \in DOMAIN rates THEN rates[cur][field] ELSE 0 - 1

\* rates.<cur>?.<field> || 0
RateOr0(rates, cur, field) ==
    IF cur \in DOMAIN rates THEN rates[cur][field] ELSE 0

\* the ExchangeRateInfo returned from the try block
Snapshot(rows) ==
    LET rates == RatesOf(rows)
    IN [usd |-> RateOr0(rates, "usd", "rate"),
        usdChange |-> RateOr0(rates, "usd", "change"),
        usdTrend |-> IF "usd" \in DOMAIN rates THEN rates["usd"].trend ELSE "stable",
        jpy |-> RateOr0(rates, "jpy", "rate"),
        eur |-> RateOr0(rates, "eur", "rate"),
        cny |-> RateOr0(rates, "cny", "rate"),
        time |-> TimeOf(rows)]

\* the ExchangeRateInfo returned from the catch block
ZeroRate ==
    [usd |-> 0, usdChange |-> 0, usdTrend |-> "stable", jpy |-> 0, eur |-> 0, cny |-> 0,
     time |-> ""]

\* fetchCurrentExchangeRates never rejects: a non-success response throws
\* inside the try block, and the catch block returns the zero snapshot
fetchCurrentExchangeRates(resp) ==
    IF resp.kind = "ok" THEN Snapshot(resp.rows) ELSE ZeroRate

\* listings of the market index page: no row, the JPY row alone, the four
\* rows the snapshot looks up
Listings ==
    {<<>>,
     <<RateRow("jpy", "point_up")>>,
     <<RateRow("usd", "point_dn"), RateRow("jpy", "none"),
       RateRow("eur", "point_up"), RateRow("cny", "none")>>}

\* what the fetch of the market index page may meet
RateResponses == {NotOk, Throws} \cup {OkListing(rows) : rows \in Listings}

\* what one keyword search may return in SpecPipe: no item or one item
SearchResponses ==
    {NotOk, Throws, OkItems(<<>>)}
        \cup {OkItems(<<it>>) : it \in {a \in ApiItems : a.pubDate = 1}}

\* what the finance listing may return in SpecPipe: no item or one item
FinanceResponses ==
    {NotOk, Throws, OkItems(<<>>)} \cup {OkItems(<<it>>) : it \in FinanceItems}

\* process.env.OPENAI_API_KEY
OpenAIKeys == {"unset", "your_openai_api_key_here", "sk-key"}

\* mutant of KeyNotConfigured: the placeholder counts as a key
KeyNotConfigured_unsetOnly(key) == key = "unset"

\* !process.env.OPENAI_API_KEY || process.env.OPENAI_API_KEY === 'your_openai_api_key_here'
KeyNotConfigured(key) == key = "unset" \/ key = "your_openai_api_key_here"

\* a JS object is a function from its own keys; {} is the function of no key
EmptyObj == [f \in {} |-> ""]

\* mutant of Spread: a key of both objects keeps the value of the first
Spread_firstWins(a, b) ==
    [f \in DOMAIN a \cup DOMAIN b |-> IF f \in DOMAIN a THEN a[f] ELSE b[f]]

\* {...a, ...b}: a key of both objects takes the value of the second
Spread(a, b) ==
    [f \in DOMAIN a \cup DOMAIN b |-> IF f \in DOMAIN b THEN b[f] ELSE a[f]]

\* the fields of AnalysisResult the prompt asks the model for
GeneratedFields ==
    {"title", "summary", "detailedAnalysis", "keyPoints", "marketFactors",
     "sentiment", "exchangeOutlook", "investmentTip"}

\* the fields of AnalysisResult
ReportFields == GeneratedFields \cup {"sources", "currentRate", "generatedAt", "newsCount"}

\* sentiment as the model gives it: the score in hundredths (the prompt asks
\* for -1.0 to 1.0, i.e. -100 to 100), and a breakdown in percent
Sentiment(score) ==
    [overall |-> "neutral", score |-> score, description |-> "generated",
     breakdown |-> [positive |-> 30, negative |-> 30, neutral |-> 30]]

\* scores the model may give: inside the range asked for, and beyond each end
ModelScores == {0 - 150, 50, 150}

FullObj ==
    [f \in GeneratedFields |-> IF f = "sentiment" THEN Sentiment(50) ELSE "generated"]

\* a link no article carries
FabricatedLink == 0

\* JSON objects the model may answer with: every field asked for; the same
\* with a sources field of its own; some fields only; none
ModelObjects ==
    {Spread(FullObj, [sentiment |-> Sentiment(score)]) : score \in ModelScores}
        \cup {Spread(FullObj, [sources |-> <<[url |-> FabricatedLink]>>]),
              [f \in {"title"} |-> "generated"],
              EmptyObj}

\* completion.choices[0].message.content: null or '', a text that is not
\* JSON, or the text of a JSON object
AbsentContent == [kind |-> "absent"]
NonJson == [kind |-> "non-json"]
JsonText(obj) == [kind |-> "json", obj |-> obj]
ModelContents == {AbsentContent, NonJson} \cup {JsonText(o) : o \in ModelObjects}

\* openai.chat.completions.create: rejects, or resolves with a completion
Completions == {Rejected("OpenAI API error")} \cup {Resolved(c) : c \in ModelContents}

\* content || '{}'
OrEmptyObject(content) == IF content.kind = "absent" THEN JsonText(EmptyObj) ELSE content

\* JSON.parse: throws a SyntaxError on a text that is not JSON
JSONParse(text) ==
    IF text.kind = "json" THEN Resolved(text.obj)
    ELSE Rejected("Unexpected token")

\* news.filter(n => n.isCrawled && n.content)
CrawledOnly(news) == SelectSeq(news, LAMBDA n : n.isCrawled /\ n.content # "")

\* mutant of Take: the whole array
Take_all(items, n) == items

\* array.slice(0, n)
Take(items, n) == SubSeq(items, 1, IF n < Len(items) THEN n ELSE Len(items))

\* crawledNews.slice(0, MAX_NEWS_FOR_ANALYSIS)
NewsForAnalysis(news) == Take(CrawledOnly(news), MAX_NEWS_FOR_ANALYSIS)

\* mutant of RateInfoIncluded: the rate information goes in whenever the
\* snapshot has a field that is not zero or empty
RateInfoIncluded_anyField(rate) ==
    \/ rate.usd # 0 \/ rate.jpy # 0 \/ rate.eur # 0 \/ rate.cny # 0
    \/ rate.usdChange # 0 \/ rate.time # ""

\* currentRate.usd > 0 ? `...` : ''
RateInfoIncluded(rate) == rate.usd > 0

\* the prompt: the numbered articles, each with its content cut to
\* MAX_CONTENT_LENGTH, and the rate information when RateInfoIncluded
Prompt(news, rate) ==
    [none |-> FALSE,
     articles |-> [k \in 1..Len(NewsForAnalysis(news)) |-> NewsForAnalysis(news)[k].url],
     bodies |-> [k \in 1..Len(NewsForAnalysis(news)) |->
                    Substring(NewsForAnalysis(news)[k].content, MAX_CONTENT_LENGTH)],
     rateInfo |-> RateInfoIncluded(rate)]

\* analyzeWithOpenAI from the settled completion on: a rejected call and a
\* SyntaxError propagate; else {...result, sources, generatedAt, newsCount}
analyzeWithOpenAI(news, completion) ==
    IF completion.rejected THEN completion
    ELSE LET result == JSONParse(OrEmptyObject(completion.value))
         IN IF result.rejected THEN result
            ELSE Resolved(Spread(result.value,
                     [sources |-> [k \in 1..Len(NewsForAnalysis(news)) |->
                                       [url |-> NewsForAnalysis(news)[k].url]],
                      generatedAt |-> "now",
                      newsCount |-> Len(CrawledOnly(news))]))

\* the responses of GET
Success(data) == [sent |-> TRUE, success |-> TRUE, data |-> data, status |-> 200]
Failure(error) == [sent |-> TRUE, success |-> FALSE, error |-> error, status |-> 500]

----------------------------------------------------------------------------
(* SpecPipe: one GET of the analyze route running performAnalysis *)

Keywords == 1..NUM_KEYWORDS

InitPipe ==
    /\ pipePc = "idle"
    /\ currentRate = NoRate
    /\ pipeSearch = <<>>
    /\ pipeFinance = <<>>
    /\ pipeUnique = <<>>
    /\ pipeCrawled = <<>>
    /\ pipePrompt = NoPrompt
    /\ pipeCompletion = NoCompletion
    /\ pipeResp = NoResponse
    /\ pipeRateResp = NoFetchYet
    /\ pipeCalls = {}
    /\ pipeKey = "unread"
    /\ pipeStored = NoEntry
    /\ CacheOff
    /\ AggOff
    /\ CrawlOff
    /\ AuthOff
    /\ TextOff
    /\ PromptOff
    /\ RateOff

\* mutant of PipeGet: the searches and the listing fetch are issued together
\* with the snapshot fetch
PipeGet_concurrent ==
    /\ pipePc = "idle"
    /\ pipePc' = "rate"
    /\ pipeCalls' = pipeCalls \cup {"rate", "search", "finance"}
    /\ pipeSearch' = [k \in 1..NUM_KEYWORDS |-> Pending]
    /\ pipeFinance' = Pending
    /\ UNCHANGED <<currentRate, pipeUnique, pipeCrawled,
                   pipePrompt, pipeCompletion, pipeResp, pipeRateResp, pipeKey,
                   pipeStored>>
    /\ UNCHANGED notPipeVars

\* GET enters performAnalysis, which awaits fetchCurrentExchangeRates
PipeGet ==
    /\ pipePc = "idle"
    /\ pipePc' = "rate"
    /\ pipeCalls' = pipeCalls \cup {"rate"}
    /\ UNCHANGED <<currentRate, pipeSearch, pipeFinance, pipeUnique, pipeCrawled,
                   pipePrompt, pipeCompletion, pipeResp, pipeRateResp, pipeKey,
                   pipeStored>>
    /\ UNCHANGED notPipeVars

\* mutant of PipeRateDone: the listing fetch is left for after the searches
PipeRateDone_sequential(resp, credentials) ==
    /\ pipePc = "rate"
    /\ currentRate' = fetchCurrentExchangeRates(resp)
    /\ pipeSearch' = [k \in Keywords |->
                         IF credentials THEN Pending
                         ELSE Settled(NoFetch, fetchNews(credentials, NoFetch))]
    /\ pipePc' = "search"
    /\ pipeRateResp' = resp
    /\ pipeCalls' = pipeCalls \cup (IF credentials THEN {"search"} ELSE {})
    /\ UNCHANGED <<pipeFinance, pipeUnique, pipeCrawled, pipePrompt, pipeCompletion, pipeResp,
                   pipeKey,
                   pipeStored>>
    /\ UNCHANGED notPipeVars

\* the snapshot is back; fetchNews is called for every keyword (it throws at
\* once without credentials), then fetchNaverFinanceNews, and both are awaited
PipeRateDone(resp, credentials) ==
    /\ pipePc = "rate"
    /\ currentRate' = fetchCurrentExchangeRates(resp)
    /\ pipeSearch' = [k \in Keywords |->
                         IF credentials THEN Pending
                         ELSE Settled(NoFetch, fetchNews(credentials, NoFetch))]
    /\ pipeFinance' = Pending
    /\ pipePc' = "search"
    /\ pipeRateResp' = resp
    /\ pipeCalls' = pipeCalls \cup (IF credentials THEN {"search"} ELSE {}) \cup {"finance"}
    /\ UNCHANGED <<pipeUnique, pipeCrawled, pipePrompt, pipeCompletion, pipeResp, pipeKey,
                   pipeStored>>
    /\ UNCHANGED notPipeVars

\* the search of keyword k settles
PipeSearchDone(k, resp) ==
    /\ pipePc = "search"
    /\ pipeSearch[k] = Pending
    /\ pipeSearch' = [pipeSearch EXCEPT ![k] = Settled(resp, fetchNews(TRUE, resp))]
    /\ UNCHANGED <<pipePc, currentRate, pipeFinance, pipeUnique, pipeCrawled,
                   pipePrompt, pipeCompletion, pipeResp, pipeRateResp, pipeCalls, pipeKey,
                   pipeStored>>
    /\ UNCHANGED notPipeVars

\* the finance listing settles
PipeFinanceDone(resp) ==
    /\ pipePc = "search"
    /\ pipeFinance = Pending
    /\ pipeFinance' = Settled(resp, fetchNaverFinanceNews(resp))
    /\ UNCHANGED <<pipePc, currentRate, pipeSearch, pipeUnique, pipeCrawled,
                   pipePrompt, pipeCompletion, pipeResp, pipeRateResp, pipeCalls, pipeKey,
                   pipeStored>>
    /\ UNCHANGED notPipeVars

\* the promises Promise.all waits for
SearchGroup == {pipeSearch[k] : k \in Keywords} \cup {pipeFinance}

\* mutant of PipeSearchFail: the rejection is absorbed and the run goes on
\* with no article
PipeSearchFail_absorbed ==
    /\ pipePc = "search"
    /\ \E c \in SearchGroup : c # Pending /\ c.promise.rejected
    /\ pipeUnique' = <<>>
    /\ pipePc' = "crawl"
    /\ UNCHANGED <<currentRate, pipeSearch, pipeFinance, pipeCrawled, pipeResp,
                   pipePrompt, pipeCompletion, pipeRateResp, pipeCalls, pipeKey,
                   pipeStored>>
    /\ UNCHANGED notPipeVars

\* Promise.all rejects as soon as one of its promises has: performAnalysis
\* throws, GET catches and answers 500; calls still in flight are abandoned
PipeSearchFail ==
    /\ pipePc = "search"
    /\ \E c \in SearchGroup : c # Pending /\ c.promise.rejected
    /\ \E c \in SearchGroup :
           /\ c # Pending /\ c.promise.rejected
           /\ pipeResp' = Failure(c.promise.error)
    /\ pipePc' = "done"
    /\ UNCHANGED <<currentRate, pipeSearch, pipeFinance, pipeUnique, pipeCrawled,
                   pipePrompt, pipeCompletion, pipeRateResp, pipeCalls, pipeKey,
                   pipeStored>>
    /\ UNCHANGED notPipeVars

\* Promise.all resolves once every promise has: merge, deduplicate, enter the
\* crawl loop; the search results are not used again
PipeSearchJoin ==
    /\ pipePc = "search"
    /\ \A c \in SearchGroup : c # Pending /\ ~c.promise.rejected
    /\ pipeUnique' = AggregateAnalyze([k \in Keywords |-> pipeSearch[k].promise.value],
                                      pipeFinance.promise.value)
    /\ pipePc' = "crawl"
    /\ pipeSearch' = <<>>
    /\ UNCHANGED <<currentRate, pipeFinance, pipeCrawled, pipePrompt, pipeCompletion, pipeResp,
                   pipeRateResp, pipeCalls, pipeKey,
                   pipeStored>>
    /\ UNCHANGED notPipeVars

\* the network calls the crawl loop and the key check add: an article fetch
\* for a link on news.naver.com, the completion call with a configured key
CallsOfCrawl(calls, key) ==
    (IF \E k \in DOMAIN calls : IssuesFetch(calls[k].host) THEN {"article"} ELSE {})
        \cup (IF KeyNotConfigured(key) THEN {} ELSE {"openai"})

\* the crawl loop has run (SpecCrawl has its steps); the key check follows:
\* performAnalysis throws, or calls analyzeWithOpenAI, which sends the prompt
PipeCrawlDone(calls, key) ==
    /\ pipePc = "crawl"
    /\ DOMAIN calls = 1..Len(pipeUnique)
    /\ pipeCrawled' = [k \in 1..Len(pipeUnique) |->
                           CrawledNewsItem(pipeUnique[k],
                                           crawlNaverNews(calls[k].host, calls[k].resp))]
    /\ pipeKey' = key
    /\ pipeCalls' = pipeCalls \cup CallsOfCrawl(calls, key)
    /\ IF KeyNotConfigured(key)
       THEN /\ pipeResp' = Failure("OpenAI API key not configured")
            /\ pipePc' = "done"
            /\ UNCHANGED pipePrompt
       ELSE /\ pipePrompt' = Prompt(pipeCrawled', currentRate)
            /\ pipePc' = "generate"
            /\ UNCHANGED pipeResp
    /\ UNCHANGED <<currentRate, pipeSearch, pipeFinance, pipeUnique, pipeCompletion,
                   pipeRateResp,
                   pipeStored>>
    /\ UNCHANGED notPipeVars

\* the completion call settles: performAnalysis returns {...analysis,
\* currentRate}, unstable_cache stores what it returned and GET answers with
\* it, or the error reaches the catch of GET and nothing is stored
PipeGenerateDone(completion) ==
    /\ pipePc = "generate"
    /\ pipeCompletion' = completion
    /\ LET analysis == analyzeWithOpenAI(pipeCrawled, completion)
       IN pipeResp' = IF analysis.rejected THEN Failure(analysis.error)
                      ELSE Success(Spread(analysis.value, [currentRate |-> currentRate]))
    /\ pipeStored' = IF pipeResp'.success THEN Entry(pipeResp'.data) ELSE pipeStored
    /\ pipePc' = "done"
    /\ UNCHANGED <<currentRate, pipeSearch, pipeFinance, pipeUnique, pipeCrawled, pipePrompt,
                   pipeRateResp, pipeCalls, pipeKey>>
    /\ UNCHANGED notPipeVars

NextPipe ==
    \/ PipeGet
    \/ \E resp \in RateResponses, credentials \in BOOLEAN : PipeRateDone(resp, credentials)
    \/ \E k \in Keywords, resp \in SearchResponses : PipeSearchDone(k, resp)
    \/ \E resp \in FinanceResponses : PipeFinanceDone(resp)
    \/ PipeSearchFail
    \/ PipeSearchJoin
    \/ \E calls \in [1..Len(pipeUnique) -> CrawlCalls], key \in OpenAIKeys :
           PipeCrawlDone(calls, key)
    \/ \E completion \in Completions : PipeGenerateDone(completion)

SpecPipe == InitPipe /\ [][NextPipe]_vars

----------------------------------------------------------------------------
(* SpecAuth: POST requests against the two invalidation routes *)

\* revalidateTag for every tag of the set
revalidateTags(c, tags) ==
    [t \in CACHE_TAGS |-> IF t \in tags THEN revalidateTag(c, t)[t] ELSE c[t]]

\* the response of an invalidation route, with the header and the tag
\* parameter of the request it answers
AuthResponse(route, header, param, status, tags) ==
    [kind |-> "invalidate", route |-> route, header |-> header, param |-> param,
     status |-> status, clearedTags |-> tags]

\* process.env is fixed for the life of the process; the cache holds an
\* entry or none under each tag
InitAuth ==
    /\ CacheOff
    /\ authEnv \in Envs
    /\ authCache \in [CACHE_TAGS -> {NoEntry, Entry(MkReport)}]
    /\ authOut = NoOut
    /\ authBefore = authCache
    /\ AggOff
    /\ CrawlOff
    /\ PipeOff
    /\ TextOff
    /\ PromptOff
    /\ RateOff

\* a GET of a cached route stores its result under the tag
AuthStore(tag) ==
    /\ authCache[tag] = NoEntry
    /\ authCache' = [authCache EXCEPT ![tag] = Entry(MkReport)]
    /\ UNCHANGED <<authEnv, authOut, authBefore>>
    /\ UNCHANGED notAuthVars

\* POST of the tag-or-all invalidation route
AuthInvalidatePost(header, param) ==
    /\ authBefore' = authCache
    /\ IF UnauthorizedAll(authEnv, header)
       THEN /\ authOut' = AuthResponse("invalidate", header, param, 401, {})
            /\ UNCHANGED authCache
       ELSE /\ authCache' = revalidateTags(authCache, ClearedTags(param))
            /\ authOut' = AuthResponse("invalidate", header, param, 200, ClearedTags(param))
    /\ UNCHANGED authEnv
    /\ UNCHANGED notAuthVars

\* POST of the cache/clear route: the analysis tag only
AuthClearPost(header) ==
    /\ authBefore' = authCache
    /\ IF UnauthorizedClear(authEnv, header)
       THEN /\ authOut' = AuthResponse("clear", header, "none", 401, {})
            /\ UNCHANGED authCache
       ELSE /\ authCache' = revalidateTags(authCache, {CACHE_TAG})
            /\ authOut' = AuthResponse("clear", header, "none", 200, {CACHE_TAG})
    /\ UNCHANGED authEnv
    /\ UNCHANGED notAuthVars

NextAuth ==
    \/ \E tag \in CACHE_TAGS : AuthStore(tag)
    \/ \E header \in Headers, param \in TagParams : AuthInvalidatePost(header, param)
    \/ \E header \in Headers : AuthClearPost(header)

SpecAuth == InitAuth /\ [][NextAuth]_vars

----------------------------------------------------------------------------
(* SpecText: stripHtml over texts of at most MaxLen tokens *)

\* a text is a sequence of tokens: the characters the patterns of stripHtml
\* look at, the bodies of the five entities (which follow an ampersand in an
\* entity and are plain text elsewhere), a letter and a blank
Tokens == {"<", ">", "&", "quot;", "amp;", "lt;", "gt;", "nbsp;", "x", " "}

Texts == UNION {[1..n -> Tokens] : n \in 0..MaxLen}

\* the index of the first token of s, from index i on, that equals tok; 0
\* when there is none
IndexFrom(s, tok, i) ==
    IF \E k \in i..Len(s) : s[k] = tok
    THEN CHOOSE k \in i..Len(s) : s[k] = tok /\ \A m \in i..Len(s) : s[m] = tok => k <= m
    ELSE 0

\* .replace(/<[^>]*>/g, ''): from the leftmost < that has a > after it up to
\* the nearest such >, then on behind it
RECURSIVE RemoveTags(_)
RemoveTags(s) ==
    IF s = <<>> THEN <<>>
    ELSE IF Head(s) = "<" /\ IndexFrom(s, ">", 2) # 0
         THEN RemoveTags(SubSeq(s, IndexFrom(s, ">", 2) + 1, Len(s)))
         ELSE <<Head(s)>> \o RemoveTags(Tail(s))

\* .replace(/&<body>/g, plain): one pass from the left; what a replacement
\* puts in is not looked at again by the same pass
RECURSIVE ReplaceEntity(_, _, _)
ReplaceEntity(s, body, plain) ==
    IF s = <<>> THEN <<>>
    ELSE IF Len(s) >= 2 /\ s[1] = "&" /\ s[2] = body
         THEN <<plain>> \o ReplaceEntity(SubSeq(s, 3, Len(s)), body, plain)
         ELSE <<Head(s)>> \o ReplaceEntity(Tail(s), body, plain)

\* .trim()
RECURSIVE TrimTokens(_)
TrimTokens(s) ==
    IF s = <<>> THEN <<>>
    ELSE IF Head(s) = " " THEN TrimTokens(Tail(s))
    ELSE IF s[Len(s)] = " " THEN TrimTokens(SubSeq(s, 1, Len(s) - 1))
    ELSE s

\* stripHtml: the tags, then &quot; &amp; &lt; &gt; &nbsp; one after the
\* other in that order, then trim
stripHtml(html) ==
    TrimTokens(
        ReplaceEntity(
            ReplaceEntity(
                ReplaceEntity(
                    ReplaceEntity(
                        ReplaceEntity(RemoveTags(html), "quot;", "\""),
                        "amp;", "&"),
                    "lt;", "<"),
                "gt;", ">"),
            "nbsp;", " "))

InitText ==
    /\ textIn \in Texts
    /\ textOut = <<>>
    /\ textTwice = <<>>
    /\ textPc = "raw"
    /\ CacheOff
    /\ AggOff
    /\ CrawlOff
    /\ PipeOff
    /\ AuthOff
    /\ PromptOff
    /\ RateOff

\* fetchNaverFinanceNews strips the title of a listing item
StripTitle ==
    /\ textPc = "raw"
    /\ textOut' = stripHtml(textIn)
    /\ textPc' = "once"
    /\ UNCHANGED <<textIn, textTwice>>
    /\ UNCHANGED notTextVars

\* the crawl callback strips the title of the same item again
StripAgain ==
    /\ textPc = "once"
    /\ textTwice' = stripHtml(textOut)
    /\ textPc' = "twice"
    /\ UNCHANGED <<textIn, textOut>>
    /\ UNCHANGED notTextVars

NextText ==
    \/ StripTitle
    \/ StripAgain

SpecText == InitText /\ [][NextText]_vars

----------------------------------------------------------------------------
(* SpecPrompt: crawled texts, prompt and report over lists of up to
   MaxArticles articles *)

\* n times the text s
RECURSIVE Rep(_, _)
Rep(s, n) ==
    IF n = 0 THEN ""
    ELSE IF n % 2 = 0 THEN LET half == Rep(s, n \div 2) IN half \o half
    ELSE s \o Rep(s, n - 1)

\* the article text of the page of the k-th link: longer than the crawler
\* keeps and with a blank in front, longer than the prompt takes, or short
ArticleText(k) ==
    CASE k % 3 = 0 -> " " \o Rep("x", MAX_CRAWLED_CONTENT + 1)
      [] k % 3 = 1 -> Rep("x", MAX_CONTENT_LENGTH + 1)
      [] OTHER -> Rep("x", 500)

\* the crawlNaverNews call for the k-th link: with skip > 0 every skip-th
\* link is a miss (a link outside news.naver.com, or a page without text)
PromptCall(k, skip) ==
    IF skip > 0 /\ k % skip = 0
    THEN IF k % 2 = 0 THEN [host |-> "other", resp |-> NoFetch]
         ELSE [host |-> NaverHost, resp |-> OkPage("")]
    ELSE [host |-> NaverHost, resp |-> OkPage(ArticleText(k))]

Skips == {0, 2, 3}

\* the completions a report is built from
PromptCompletions ==
    {Resolved(JsonText(FullObj)),
     Resolved(JsonText(Spread(FullObj, [sources |-> <<[url |-> FabricatedLink]>>])))}

InitPrompt ==
    /\ \E n \in 0..MaxArticles, skip \in Skips :
           promptCalls = [k \in 1..n |-> PromptCall(k, skip)]
    /\ promptNews = <<>>
    /\ promptOut = NoPrompt
    /\ promptReport = NoReport
    /\ promptPc = "calls"
    /\ CacheOff
    /\ AggOff
    /\ CrawlOff
    /\ PipeOff
    /\ AuthOff
    /\ TextOff
    /\ RateOff

\* the crawl loop has run over the list
PromptCrawl ==
    /\ promptPc = "calls"
    /\ promptNews' = [k \in 1..Len(promptCalls) |->
                          CrawledNewsItem([link |-> k],
                              crawlNaverNews(promptCalls[k].host, promptCalls[k].resp))]
    /\ promptPc' = "crawled"
    /\ UNCHANGED <<promptCalls, promptOut, promptReport>>
    /\ UNCHANGED notPromptVars

\* analyzeWithOpenAI builds the prompt
PromptBuild(rate) ==
    /\ promptPc = "crawled"
    /\ promptOut' = Prompt(promptNews, rate)
    /\ promptPc' = "prompt"
    /\ UNCHANGED <<promptCalls, promptNews, promptReport>>
    /\ UNCHANGED notPromptVars

\* the completion is back and analyzeWithOpenAI returns the report
PromptAnswer(completion) ==
    /\ promptPc = "prompt"
    /\ promptReport' = analyzeWithOpenAI(promptNews, completion)
    /\ promptPc' = "done"
    /\ UNCHANGED <<promptCalls, promptNews, promptOut>>
    /\ UNCHANGED notPromptVars

NextPrompt ==
    \/ PromptCrawl
    \/ \E rate \in {ZeroRate, Snapshot(<<RateRow("usd", "point_up")>>)} : PromptBuild(rate)
    \/ \E completion \in PromptCompletions : PromptAnswer(completion)

SpecPrompt == InitPrompt /\ [][NextPrompt]_vars

----------------------------------------------------------------------------
(* SpecRate: a rate listing of at most MaxRows rows parsed by both routes *)

\* the keys of CURRENCY_MAP the model uses
CURRENCY_MAP == {"usd", "jpy", "eur", "cny"}

\* rows as the page may carry them: a currency of CURRENCY_MAP or another
\* one, the number parsed from the .value text, the number parsed from the
\* .change text (parseFloat keeps a sign the text has), and the classes
RawRows ==
    [cur : {"usd", "xyz"}, rate : {0, 1}, change : {0 - 1, 0, 1},
     cls : {"none", "point_up", "point_dn", "point_up point_dn"}, time : {"09:00"}]

RawListings == UNION {[1..n -> RawRows] : n \in 0..MaxRows}

\* the rates array of fetchExchangeRates: one entry for every row whose
\* currency is in CURRENCY_MAP, in the order of the rows
RateList(rows) ==
    LET known == SelectSeq(rows, LAMBDA row : row.cur \in CURRENCY_MAP)
    IN [k \in 1..Len(known) |->
           [cur |-> known[k].cur, row |-> known[k], parsed |-> ParseRow(known[k])]]

\* the rates object of fetchCurrentExchangeRates as a list: one entry for
\* every currency listed, with the row that was parsed last for it
RateObject(rows) ==
    LET last == SelectSeq([i \in 1..Len(rows) |-> i],
                          LAMBDA i : \A m \in (i + 1)..Len(rows) : rows[m].cur # rows[i].cur)
    IN [k \in 1..Len(last) |->
           [cur |-> rows[last[k]].cur, row |-> rows[last[k]],
            parsed |-> RatesOf(rows)[rows[last[k]].cur]]]

InitRate ==
    /\ rateRows \in RawListings
    /\ rateParsed = <<>>
    /\ ratePc = "raw"
    /\ CacheOff
    /\ AggOff
    /\ CrawlOff
    /\ PipeOff
    /\ AuthOff
    /\ TextOff
    /\ PromptOff

\* fetchCurrentExchangeRates of the analyze route parses the listing
ParseForAnalysis ==
    /\ ratePc = "raw"
    /\ rateParsed' = RateObject(rateRows)
    /\ ratePc' = "analyze"
    /\ UNCHANGED rateRows
    /\ UNCHANGED notRateVars

\* fetchExchangeRates of the rate route parses the listing
ParseForRateRoute ==
    /\ ratePc = "raw"
    /\ rateParsed' = RateList(rateRows)
    /\ ratePc' = "rate"
    /\ UNCHANGED rateRows
    /\ UNCHANGED notRateVars

NextRate ==
    \/ ParseForAnalysis
    \/ ParseForRateRoute

SpecRate == InitRate /\ [][NextRate]_vars

----------------------------------------------------------------------------
(* Claims about the cached routes, checked under Spec *)

\* o is the successful answer to a non-refresh GET of the cached route of tag
IsGet(o, tag) == o.kind = "get" /\ o.tag = tag /\ ~o.refresh /\ o.success

\* o is the successful answer of an invalidation that covered tag
IsInvalidation(o, tag) == o.kind = "invalidate" /\ o.success /\ tag \in o.clearedTags

\* in this step a run that a request was awaiting returns to its handler
RunReturns == \E s \in Slots : req[s].pc = "run" /\ req'[s].pc = "idle"

\* in this step a background revalidation is started
RevalidationStarts == \E s \in Slots : req[s].pc = "idle" /\ req'[s].pc = "bg"

\* in this step a non-refresh GET of the tag is answered successfully
AnswerStep(tag) == IsGet(out', tag) /\ (out' # out \/ RevalidationStarts)

\* in this step a non-refresh GET of the tag is answered at once, that is
\* without having awaited a run
AnsweredAtOnce(tag) == AnswerStep(tag) /\ ~RunReturns

C2_Original ==
    (/\ out.kind = "get" /\ out.tag = CACHE_TAG /\ out.refresh /\ out.success
     /\ now - out.data.generatedAt.t <= 600)
      => (cache[CACHE_TAG] # NoEntry /\ cache[CACHE_TAG].value = out.data)

\* C2 as amended: a force refresh is answered by a run of its own whatever
\* the cache holds (its report is generated in the answering step), and the
\* step that answers it leaves every cache entry as it was.
C2_RefreshBypassesCache ==
    [][(out'.kind = "get" /\ out'.refresh /\ out' # out) =>
         /\ cache' = cache
         /\ RunReturns
         /\ out'.success => out'.data.generatedAt = GenAt(now', sub')]_vars

\* C2 witness: a force refresh of the analysis route was answered with its
\* own report while the tag's entry, still within 600 s, holds another one
C2_Witness ==
    /\ out.kind = "get" /\ out.tag = CACHE_TAG /\ out.refresh /\ out.success
    /\ cache[CACHE_TAG] # NoEntry
    /\ now - cache[CACHE_TAG].createdAt <= 600
    /\ cache[CACHE_TAG].value # out.data

\* no non-refresh run of the tag's route is being awaited
NoGetInFlight(tag) ==
    \A s \in Slots : ~(req[s].pc = "run" /\ req[s].tag = tag /\ ~req[s].refresh)

\* in this step an invalidation covering the tag is carried out
InvalidationStep(tag) ==
    IsInvalidation(out', tag) /\ req' = req /\ (out' # out \/ cache' # cache)

----------------------------------------------------------------------------
(* Claims about the aggregation (SpecAgg) *)

\* the merged list the route that ran has deduplicated
AggInput ==
    IF aggRoute = "analyze" THEN MergeAnalyze(aggApi, aggFinance)
    ELSE Flat(SubSeq(aggApi, 1, NUM_KEYWORDS_NEWS))

LinksOf(items) == {items[i].link : i \in 1..Len(items)}

Occurrences(items, l) == {i \in 1..Len(items) : items[i].link = l}

FirstIdx(items, l) ==
    CHOOSE i \in Occurrences(items, l) : \A j \in Occurrences(items, l) : i <= j

LastIdx(items, l) ==
    CHOOSE i \in Occurrences(items, l) : \A j \in Occurrences(items, l) : j <= i

EachLinkOnce ==
    /\ LinksOf(aggOut) = LinksOf(AggInput)
    /\ \A l \in LinksOf(AggInput) : Cardinality(Occurrences(aggOut, l)) = 1

NonIncreasing(items) ==
    \A i, j \in 1..Len(items) : i < j => items[i].pubDate >= items[j].pubDate

\* C6 as stated: once a route has aggregated, its output holds each link of
\* the merged list exactly once, and the entry kept for a link is the first
\* item of the merged list with that link.
C6_Original ==
    aggRoute # "none" =>
        /\ EachLinkOnce
        /\ \A i \in 1..Len(aggOut) :
               aggOut[i] = AggInput[FirstIdx(AggInput, aggOut[i].link)]

\* C6 as amended: once a route has aggregated, its output holds each link of
\* the merged list exactly once and no other link; the entry kept for a link
\* is the last item of the merged list with that link (so the finance
\* listing's entry replaces a search result with the same link); and in the
\* analysis pipeline the entries stand in the order in which their links
\* first occur in the merged list.
C6_LastSeenRetained ==
    aggRoute # "none" =>
        /\ EachLinkOnce
        /\ \A i \in 1..Len(aggOut) :
               aggOut[i] = AggInput[LastIdx(AggInput, aggOut[i].link)]
        /\ aggRoute = "analyze" =>
               \A i, j \in 1..Len(aggOut) :
                   i < j => FirstIdx(AggInput, aggOut[i].link)
                                < FirstIdx(AggInput, aggOut[j].link)

\* C6 witness: the analysis pipeline merged a search result and a finance
\* listing item with the same link and different title or date, and its
\* output holds the finance listing's item once
C6_Witness ==
    /\ aggRoute = "analyze"
    /\ \E i \in 1..Len(Flat(aggApi)) : \E j \in 1..Len(aggFinance) :
           /\ Flat(aggApi)[i].link = aggFinance[j].link
           /\ Flat(aggApi)[i] # aggFinance[j]
           /\ \E k \in 1..Len(aggOut) : aggOut[k] = aggFinance[j]
           /\ Cardinality(Occurrences(aggOut, aggFinance[j].link)) = 1

----------------------------------------------------------------------------
(* Claims about the crawl loop (SpecCrawl) *)

\* C8: the crawl loop never holds more outputs than inputs, the k-th output
\* always carries the link of the k-th input, an output is marked crawled
\* exactly when it carries content, the outputs of the batch pushed last
\* carry what the fetch at the same position of the batch returned, and when
\* the loop has ended there are as many outputs as inputs - whatever the
\* fetches returned and in whatever order the fetches of a batch resolved.
C8_BatchCompleteness ==
    /\ Len(crawledNews) <= Len(uniqueNews)
    /\ \A k \in 1..Len(crawledNews) :
           /\ crawledNews[k].url = uniqueNews[k].link
           /\ crawledNews[k].isCrawled <=> crawledNews[k].content # ""
    /\ crawlPc \in {"loop", "done"} =>
           \A j \in 1..Len(crawlResults) :
               crawledNews[batchStart - batchSize + j].content =
                   (IF crawlResults[j].null THEN "" ELSE crawlResults[j].content)
    /\ crawlPc = "done" => Len(crawledNews) = Len(uniqueNews)

\* C8 witness: the loop has ended after more than one batch; the fetches of
\* the last batch did not resolve in the order of the batch; some fetches
\* failed and some delivered content
C8_Witness ==
    /\ crawlPc = "done"
    /\ Len(uniqueNews) > batchSize
    /\ Len(crawledNews) = Len(uniqueNews)
    /\ Len(crawlOrder) >= 2
    /\ crawlOrder[1] # 1
    /\ \E k \in 1..Len(crawledNews) : ~crawledNews[k].isCrawled
    /\ \E k \in 1..Len(crawledNews) : crawledNews[k].isCrawled

----------------------------------------------------------------------------
(* Claims about a pipeline run (SpecPipe) *)

\* C5 as stated: a response of the analyze route is either a 200 with
\* success and a data payload that has every field of the report and no
\* error, or a failure status with an error message and no data payload; and
\* when the completion text is not JSON the response has no data payload.
C5_Original ==
    pipeResp.sent =>
        /\ \/ /\ pipeResp.success
              /\ pipeResp.status = 200
              /\ "data" \in DOMAIN pipeResp
              /\ "error" \notin DOMAIN pipeResp
              /\ ReportFields \subseteq DOMAIN pipeResp.data
           \/ /\ ~pipeResp.success
              /\ pipeResp.status >= 400
              /\ "error" \in DOMAIN pipeResp
              /\ "data" \notin DOMAIN pipeResp
        /\ (pipeCompletion # NoCompletion /\ ~pipeCompletion.rejected
               /\ pipeCompletion.value.kind = "non-json")
           => "data" \notin DOMAIN pipeResp

\* C9: in every report sent, sources lists exactly the articles placed in
\* the prompt, in the prompt's order; each of them is a crawled article with
\* content; and no entry is one of the model's own (a link no article has).
C9_SourcesFidelity ==
    (pipeResp.sent /\ pipeResp.success) =>
        LET sources == pipeResp.data.sources
        IN /\ Len(sources) = Len(pipePrompt.articles)
           /\ \A k \in 1..Len(sources) :
                  /\ sources[k].url = pipePrompt.articles[k]
                  /\ sources[k].url # FabricatedLink
                  /\ \E j \in 1..Len(pipeCrawled) :
                         /\ pipeCrawled[j].url = sources[k].url
                         /\ pipeCrawled[j].isCrawled
                         /\ pipeCrawled[j].content # ""

\* C9 witness: the model answered with a sources field of its own; the
\* report sent lists a crawled article, and an article that was not crawled
\* is left out
C9_Witness ==
    /\ pipeResp.sent
    /\ pipeResp.success
    /\ ~pipeCompletion.rejected
    /\ pipeCompletion.value.kind = "json"
    /\ "sources" \in DOMAIN pipeCompletion.value.obj
    /\ Len(pipeResp.data.sources) >= 1
    /\ \E j \in 1..Len(pipeCrawled) :
           /\ ~pipeCrawled[j].isCrawled
           /\ \A k \in 1..Len(pipeResp.data.sources) :
                  pipeResp.data.sources[k].url # pipeCrawled[j].url

\* the step in which the awaited searches are left behind
SearchPhaseEnds == pipePc = "search" /\ pipePc' # "search"

\* a keyword search that has failed: no credentials, a non-success response,
\* an exception
SearchHasFailed ==
    \E k \in Keywords : pipeSearch[k] # Pending /\ pipeSearch[k].resp.kind # "ok"

\* C10: when a keyword search has failed, the search phase ends with a
\* failure response without data and the run is over; otherwise it ends only
\* with every call settled, no response is sent, and the list handed to the
\* crawl loop is the deduplicated keyword results followed by the finance
\* listing's items - none when the listing met a non-success response or an
\* exception.
C10_SearchFailurePolicy ==
    [][SearchPhaseEnds =>
         /\ SearchHasFailed =>
                /\ pipePc' = "done"
                /\ pipeResp'.sent
                /\ ~pipeResp'.success
                /\ "data" \notin DOMAIN pipeResp'
         /\ ~SearchHasFailed =>
                /\ pipePc' = "crawl"
                /\ pipeResp' = pipeResp
                /\ \A k \in Keywords : pipeSearch[k] # Pending
                /\ pipeFinance # Pending
                /\ pipeUnique' = DedupByLink(
                       Flat([k \in Keywords |-> pipeSearch[k].resp.items])
                           \o (IF pipeFinance.resp.kind = "ok"
                               THEN pipeFinance.resp.items ELSE <<>>))]_vars

\* C10 witness: the finance listing failed and the run went on with the
\* keyword results to a success response
C10_Witness ==
    /\ pipePc = "done"
    /\ pipeResp.success
    /\ pipeFinance.resp.kind # "ok"
    /\ pipeUnique # <<>>

----------------------------------------------------------------------------
(* Claims about single fetches of the crawl loop (SpecCrawl) *)

\* the call that settled last met a miss: a link outside news.naver.com, a
\* non-success response, an exception, or a page whose article text is
\* empty or blank
LastIsMiss ==
    \/ crawlLast.host # NaverHost
    \/ crawlLast.resp.kind # "ok"
    \/ crawlLast.resp.text \in {"", " "}

\* C11: every output is marked crawled exactly when it carries content; the
\* call that settled last resolved to null or to empty content when it met a
\* miss and to the text otherwise; once its batch is pushed, its output is
\* not crawled with empty content on a miss and crawled with the text
\* otherwise; and whatever the fetches met, the loop ends with one output for
\* every input.
C11_EnrichmentMiss ==
    /\ \A k \in 1..Len(crawledNews) :
           /\ crawledNews[k].isCrawled <=> crawledNews[k].content # ""
           /\ crawledNews[k].content \in {"", "text"}
    /\ (crawlPc = "fetching" /\ crawlLast # NoLast) =>
           LET crawled == crawlResults[crawlLast.j]
           IN IF LastIsMiss
              THEN crawled = NullCrawl \/ crawled = Crawled("")
              ELSE crawled = Crawled("text")
    /\ (crawlPc \in {"loop", "done"} /\ crawlLast # NoLast) =>
           LET item == crawledNews[batchStart - batchSize + crawlLast.j]
           IN IF LastIsMiss
              THEN ~item.isCrawled /\ item.content = ""
              ELSE item.isCrawled /\ item.content = "text"
    /\ crawlPc = "done" => Len(crawledNews) = Len(uniqueNews)

\* C11 witness: the loop has ended; the call that settled last threw; its
\* item is in the output, not crawled, next to an item that was crawled
C11_Witness ==
    /\ crawlPc = "done"
    /\ crawlLast # NoLast
    /\ crawlLast.resp.kind = "throws"
    /\ ~crawledNews[batchStart - batchSize + crawlLast.j].isCrawled
    /\ \E k \in 1..Len(crawledNews) : crawledNews[k].isCrawled
    /\ Len(crawledNews) = Len(uniqueNews)

----------------------------------------------------------------------------
(* Claims about the rate snapshot of the pipeline (SpecPipe) *)

\* the rate fetch has settled
RateSettled == pipeRateResp # NoFetchYet

\* the errors a run can answer with; none of them comes from the rate fetch
PipelineErrors ==
    {"Naver API credentials not configured", "Naver API error", "fetch failed",
     "OpenAI API key not configured", "OpenAI API error", "Unexpected token"}

\* C12: once the rate fetch has settled the pipeline holds a snapshot of all
\* seven fields and has moved on to the searches; after a non-success
\* response or an exception every rate and the change are 0, the trend is
\* stable and the time is empty; after a success an instrument that the
\* listing does not carry is 0; no failure response comes from the rate
\* fetch, and a success response carries the snapshot.
C12_SnapshotNeverThrows ==
    /\ RateSettled <=> pipePc \in {"search", "crawl", "generate", "done"}
    /\ RateSettled =>
           /\ DOMAIN currentRate =
                  {"usd", "usdChange", "usdTrend", "jpy", "eur", "cny", "time"}
           /\ pipeRateResp.kind # "ok" =>
                  /\ currentRate.usd = 0 /\ currentRate.jpy = 0
                  /\ currentRate.eur = 0 /\ currentRate.cny = 0
                  /\ currentRate.usdChange = 0
                  /\ currentRate.usdTrend = "stable"
                  /\ currentRate.time = ""
           /\ pipeRateResp.kind = "ok" =>
                  \A c \in {"usd", "jpy", "eur", "cny"} :
                      IF \E i \in 1..Len(pipeRateResp.rows) : pipeRateResp.rows[i].cur = c
                      THEN currentRate[c] = 1
                      ELSE currentRate[c] = 0
    /\ (pipeResp.sent /\ ~pipeResp.success) => pipeResp.error \in PipelineErrors
    /\ (pipeResp.sent /\ pipeResp.success) => pipeResp.data.currentRate = currentRate

\* C12 witness: the rate fetch threw and the run ended in a success response
\* that carries the all-zero snapshot
C12_Witness ==
    /\ pipeRateResp.kind = "throws"
    /\ pipeResp.sent /\ pipeResp.success
    /\ pipeResp.data.currentRate.usd = 0
    /\ pipeResp.data.currentRate.usdTrend = "stable"

----------------------------------------------------------------------------
(* Claims about the completion of a pipeline run (SpecPipe) *)

\* the completion call resolved with the given kind of content
CompletionIs(kinds) ==
    /\ pipeCompletion # NoCompletion
    /\ ~pipeCompletion.rejected
    /\ pipeCompletion.value.kind \in kinds

\* C13 as stated: when the content of the completion is absent or empty, or
\* is a text that is not JSON, the request fails with an error and carries no
\* report.
C13_Original ==
    (CompletionIs({"absent", "non-json"}) /\ pipeResp.sent) =>
        /\ ~pipeResp.success
        /\ "error" \in DOMAIN pipeResp
        /\ "data" \notin DOMAIN pipeResp

\* C14 as stated: the sentiment score of every report returned lies between
\* -1.0 and 1.0 (-100 and 100 hundredths), a score given beyond an end being
\* the nearer end, and the breakdown is the one the model gave.
C14_Original ==
    (CompletionIs({"json"}) /\ pipeResp.sent /\ pipeResp.success
        /\ "sentiment" \in DOMAIN pipeCompletion.value.obj) =>
        LET given == pipeCompletion.value.obj.sentiment
            returned == pipeResp.data.sentiment
        IN /\ returned.score >= 0 - 100
           /\ returned.score <= 100
           /\ returned.score = IF given.score > 100 THEN 100
                               ELSE IF given.score < 0 - 100 THEN 0 - 100
                               ELSE given.score
           /\ returned.breakdown = given.breakdown

----------------------------------------------------------------------------
(* Claims about the order of the calls of a pipeline run (SpecPipe) *)

\* the run answered with the configuration error of the generation key
KeyErrorRaised ==
    /\ pipeResp.sent
    /\ ~pipeResp.success
    /\ pipeResp.error = "OpenAI API key not configured"

RateInFlight == "rate" \in pipeCalls /\ ~RateSettled

\* a call of the search phase is in flight
SearchInFlight ==
    \/ pipeFinance = Pending
    \/ \E k \in DOMAIN pipeSearch : pipeSearch[k] = Pending

\* C19 as stated: the searches are issued without waiting for the snapshot
\* fetch: the step that issues the snapshot fetch issues the searches and
\* the listing fetch as well, and leaves all of them in flight together.
C19_Original ==
    [][("rate" \notin pipeCalls /\ "rate" \in pipeCalls') =>
           (RateInFlight' /\ SearchInFlight')]_vars

\* C19: the snapshot fetch is awaited before the search phase starts: while
\* it is in flight no search and no listing fetch has been issued, and
\* whenever a call of the search phase is in flight the snapshot fetch has
\* settled and the pipeline holds its snapshot.
C19_SnapshotBeforeSearch ==
    /\ RateInFlight =>
           /\ pipeCalls = {"rate"}
           /\ pipeSearch = <<>>
           /\ pipeFinance = <<>>
           /\ currentRate = NoRate
    /\ SearchInFlight =>
           /\ RateSettled
           /\ currentRate = fetchCurrentExchangeRates(pipeRateResp)

\* C19 witness: the searches are in flight and the snapshot, read from a
\* listing with the USD row, is already held
C19_Witness ==
    /\ \A k \in DOMAIN pipeSearch : pipeSearch[k] = Pending
    /\ pipeSearch # <<>>
    /\ RateSettled
    /\ currentRate # NoRate
    /\ currentRate.usd = 1

\* the promises of the search phase, as created
SearchPhaseCreated(search, finance) ==
    /\ DOMAIN search = 1..NUM_KEYWORDS
    /\ \A k \in DOMAIN search :
           \/ search[k] = Pending
           \/ search[k].promise = Rejected("Naver API credentials not configured")
    /\ finance = Pending

\* C20: the step that calls the first function of the search phase calls
\* all of them: every keyword search and the listing fetch exist, in flight
\* (or already rejected for want of credentials), before any is awaited; no
\* later step starts a call of the phase; and the step that deduplicates is
\* taken with every one of them settled.
C20_OneParallelGroup ==
    [][/\ (pipeSearch = <<>> /\ pipeFinance = <<>>
              /\ (pipeSearch' # <<>> \/ pipeFinance' # <<>>)) =>
               SearchPhaseCreated(pipeSearch', pipeFinance')
       /\ pipePc' = "search" => DOMAIN pipeSearch' = 1..NUM_KEYWORDS /\ pipeFinance' # <<>>
       /\ (pipePc = "search" /\ pipePc' = "search") =>
               /\ \A k \in 1..NUM_KEYWORDS : pipeSearch'[k] = Pending => pipeSearch[k] = Pending
               /\ pipeFinance' = Pending => pipeFinance = Pending
       /\ pipeUnique' # pipeUnique =>
               /\ pipePc = "search"
               /\ \A k \in 1..NUM_KEYWORDS : pipeSearch[k] # Pending
               /\ pipeFinance # Pending]_vars

\* C20 witness: every keyword search and the listing fetch are in flight
\* together
C20_Witness ==
    /\ pipePc = "search"
    /\ DOMAIN pipeSearch = 1..NUM_KEYWORDS
    /\ \A k \in 1..NUM_KEYWORDS : pipeSearch[k] = Pending
    /\ pipeFinance = Pending

----------------------------------------------------------------------------
(* Claims about the concurrency of the crawl loop (SpecCrawl) *)

\* the crawlNaverNews calls that have been started and have not resolved
InFlight(results) == Cardinality({j \in 1..Len(results) : results[j] = Pending})

\* C18: no step leaves more than batchSize crawlNaverNews calls in flight;
\* a step that starts calls is taken with no call in flight and with the
\* outputs of all earlier batches pushed, and starts the calls of the next
\* batchSize items (or of the items that remain); a batch is pushed only
\* when none of its calls is in flight.
C18_Backpressure ==
    [][/\ InFlight(crawlResults') <= batchSize
       /\ InFlight(crawlResults') > InFlight(crawlResults) =>
               /\ InFlight(crawlResults) = 0
               /\ Len(crawledNews) = batchStart
               /\ InFlight(crawlResults') =
                      (IF Len(uniqueNews) - batchStart < batchSize
                       THEN Len(uniqueNews) - batchStart ELSE batchSize)
       /\ crawledNews' # crawledNews => InFlight(crawlResults) = 0]_vars

\* C18 witness: batchSize calls are in flight while further items wait for
\* the next batch
C18_Witness ==
    /\ crawlPc = "fetching"
    /\ InFlight(crawlResults) = batchSize
    /\ Len(uniqueNews) > batchStart + batchSize

----------------------------------------------------------------------------
(* Claims about the invalidation routes (SpecAuth) *)

\* C16 as stated: the request answered last was rejected with 401, with no
\* tag invalidated and the cache as it was, exactly when the process runs in
\* production mode, a secret is configured and the header differs from
\* 'Bearer <secret>'; in every other case it was processed: status 200 and
\* no entry left under the tags it names.
C16_Original ==
    authOut # NoOut =>
        IF /\ authEnv.production
           /\ authEnv.cronSecret # "unset"
           /\ authOut.header # "Bearer s3cret"
        THEN /\ authOut.status = 401
             /\ authOut.clearedTags = {}
             /\ authCache = authBefore
        ELSE /\ authOut.status = 200
             /\ authOut.clearedTags # {}
             /\ \A t \in authOut.clearedTags \cap CACHE_TAGS : authCache[t] = NoEntry

\* the step answers a POST of the tag-or-all invalidation route with 200
InvalidateAnswered ==
    /\ \/ authOut' # authOut
       \/ authBefore' # authBefore
       \/ \E t \in CACHE_TAGS : authCache[t] # NoEntry /\ authCache'[t] = NoEntry
    /\ authOut'.kind = "invalidate"
    /\ authOut'.route = "invalidate"
    /\ authOut'.status = 200

\* the step invalidates exactly the tags of the set: their entries are
\* gone, every other entry is as it was, and clearedTags is the set
InvalidatesExactly(tags) ==
    /\ authOut'.clearedTags = tags
    /\ \A t \in CACHE_TAGS :
          authCache'[t] = IF t \in tags THEN NoEntry ELSE authCache[t]

\* C28 as stated: a request with a tag parameter invalidates exactly that
\* tag, known or not, whatever its value; a request with no tag parameter
\* invalidates exactly the two cache tags; clearedTags is the set invalidated.
C28_Original ==
    [][InvalidateAnswered =>
          InvalidatesExactly(IF authOut'.param # "none" THEN {authOut'.param}
                             ELSE CACHE_TAGS)]_vars

\* C28: a request with a non-empty tag parameter invalidates exactly that
\* tag, known or not, and leaves the entry of every other tag as it was; a
\* request with no tag parameter, or with an empty one, invalidates exactly
\* the two cache tags; clearedTags is the set invalidated.
C28_InvalidationScope ==
    [][InvalidateAnswered =>
          InvalidatesExactly(IF authOut'.param \notin {"none", ""} THEN {authOut'.param}
                             ELSE {"exchange-rate-analysis", "exchange-rate"})]_vars

\* C28 witness: with an entry under both tags, a request with the rate tag
\* has removed the rate entry and left the analysis entry
C28_Witness ==
    /\ authOut # NoOut
    /\ authOut.route = "invalidate"
    /\ authOut.status = 200
    /\ authOut.param = RATE_CACHE_TAG
    /\ authOut.clearedTags = {RATE_CACHE_TAG}
    /\ authBefore[RATE_CACHE_TAG] # NoEntry
    /\ authBefore[CACHE_TAG] # NoEntry
    /\ authCache[RATE_CACHE_TAG] = NoEntry
    /\ authCache[CACHE_TAG] = authBefore[CACHE_TAG]

----------------------------------------------------------------------------
(* Claims about stripHtml (SpecText) *)

\* an entity starts at index i of s
EntityAt(s, i) ==
    /\ i + 1 <= Len(s)
    /\ s[i] = "&"
    /\ s[i + 1] \in {"quot;", "amp;", "lt;", "gt;", "nbsp;"}

\* a text with no tag, no entity and no blank at either end
IsPlain(s) ==
    /\ ~\E i, k \in 1..Len(s) : i < k /\ s[i] = "<" /\ s[k] = ">"
    /\ ~\E i \in 1..Len(s) : EntityAt(s, i)
    /\ s # <<>> => s[1] # " " /\ s[Len(s)] # " "

\* the plain equivalent of an entity body
PlainOf(body) ==
    CASE body = "quot;" -> "\""
      [] body = "amp;" -> "&"
      [] body = "lt;" -> "<"
      [] body = "gt;" -> ">"
      [] body = "nbsp;" -> " "

\* every entity of s decoded once, in one pass from the left
RECURSIVE DecodeOnce(_)
DecodeOnce(s) ==
    IF s = <<>> THEN <<>>
    ELSE IF EntityAt(s, 1)
         THEN <<PlainOf(s[2])>> \o DecodeOnce(SubSeq(s, 3, Len(s)))
         ELSE <<Head(s)>> \o DecodeOnce(Tail(s))

\* C17 as stated: stripHtml returns a plain text unchanged; it returns the
\* text without its tags, each entity decoded once, trimmed; and applying it
\* to its own result changes nothing.
C17_Original ==
    /\ (textPc \in {"once", "twice"} /\ IsPlain(textIn)) => textOut = textIn
    /\ textPc \in {"once", "twice"} =>
           textOut = TrimTokens(DecodeOnce(RemoveTags(textIn)))
    /\ textPc = "twice" => textTwice = textOut

----------------------------------------------------------------------------
(* Claims about the fetcher of the crawl loop (SpecCrawl) *)

\* C21: the call that settled last, for a link outside news.naver.com, sent
\* no request and resolved to null; for a link on news.naver.com it sent the
\* request and resolved to null on a non-success response and on an
\* exception; and every call that has settled resolved to null or to a
\* content, never to a rejection, so that the loop is never left by an
\* exception.
C21_ScopeFilterAbsorbs ==
    /\ crawlLast # NoLast =>
           /\ crawlLast.host # "news.naver.com" =>
                  /\ ~crawlLast.fetched
                  /\ crawlResults[crawlLast.j] = NullCrawl
           /\ crawlLast.host = "news.naver.com" =>
                  /\ crawlLast.fetched
                  /\ crawlLast.resp.kind \in {"not-ok", "throws"} =>
                         crawlResults[crawlLast.j] = NullCrawl
    /\ \A j \in 1..Len(crawlResults) :
           \/ crawlResults[j] = Pending
           \/ crawlResults[j] = NullCrawl
           \/ /\ DOMAIN crawlResults[j] = {"null", "content"}
              /\ ~crawlResults[j].null
    /\ crawlPc \in {"loop", "fetching", "done"}

\* C21 witness: the call that settled last was for a link outside
\* news.naver.com and resolved to null without a request, in a batch where
\* another call met an exception and a third delivered content
C21_Witness ==
    /\ crawlLast # NoLast
    /\ crawlLast.host = "other"
    /\ ~crawlLast.fetched
    /\ crawlResults[crawlLast.j] = NullCrawl
    /\ \E j \in 1..Len(crawlResults) : crawlResults[j] = Crawled("text")
    /\ Len(crawlOrder) >= 3

----------------------------------------------------------------------------
(* Claims about the prompt and the report counts (SpecPrompt) *)

\* the k-th article of the list is enriched: crawled with a text
Enriched(news, k) == news[k].isCrawled /\ news[k].content # ""

\* the number of enriched articles among the first k
EnrichedUpTo(news, k) == Cardinality({m \in 1..k : Enriched(news, m)})

\* the position in the list of the k-th enriched article
EnrichedAt(news, k) ==
    CHOOSE i \in 1..Len(news) : Enriched(news, i) /\ EnrichedUpTo(news, i) = k

MinOf(a, b) == IF a < b THEN a ELSE b

\* C22: the text kept for an article is at most 3000 characters, the first
\* 3000 of the trimmed page text; the prompt lists min(E, 50) articles, E
\* the number of enriched ones; its k-th article is the k-th enriched
\* article of the list, and its body is the first 1000 characters of that
\* article's text, never empty.
C22_BoundedPrompt ==
    /\ promptPc \in {"crawled", "prompt", "done"} =>
           \A k \in 1..Len(promptNews) :
               /\ Len(promptNews[k].content) <= 3000
               /\ (promptCalls[k].host = NaverHost /\ promptCalls[k].resp.kind = "ok") =>
                      LET page == Trim(promptCalls[k].resp.text)
                      IN /\ Len(promptNews[k].content) = MinOf(Len(page), 3000)
                         /\ promptNews[k].content =
                                SubSeq(page, 1, Len(promptNews[k].content))
    /\ promptPc \in {"prompt", "done"} =>
           /\ Len(promptOut.articles) <= 50
           /\ Len(promptOut.articles) = MinOf(EnrichedUpTo(promptNews, Len(promptNews)), 50)
           /\ Len(promptOut.bodies) = Len(promptOut.articles)
           /\ \A k \in 1..Len(promptOut.articles) :
                  LET item == promptNews[EnrichedAt(promptNews, k)]
                  IN /\ promptOut.articles[k] = item.url
                     /\ Len(promptOut.bodies[k]) = MinOf(Len(item.content), 1000)
                     /\ promptOut.bodies[k] # ""
                     /\ promptOut.bodies[k] =
                            SubSeq(item.content, 1, Len(promptOut.bodies[k]))

\* C22 witness: more than 50 articles are enriched; the prompt lists 50 of
\* them; one of the texts kept has 3000 characters and its body in the
\* prompt has 1000
C22_Witness ==
    /\ promptPc = "prompt"
    /\ EnrichedUpTo(promptNews, Len(promptNews)) > 50
    /\ Len(promptOut.articles) = 50
    /\ \E k \in 1..50 :
           /\ Len(promptNews[EnrichedAt(promptNews, k)].content) = 3000
           /\ Len(promptOut.bodies[k]) = 1000

\* C25: the sources of a report are the articles of the prompt, one for
\* one and in the same order, min(E, 50) of them, E the number of enriched
\* articles, and newsCount is E; for 5 articles of which 3 are enriched
\* the sources are 3 and newsCount is 3.
C25_ReportCounts ==
    (promptPc = "done" /\ ~promptReport.rejected) =>
        LET report == promptReport.value
            E == EnrichedUpTo(promptNews, Len(promptNews))
        IN /\ Len(report.sources) = Len(promptOut.articles)
           /\ \A k \in 1..Len(report.sources) :
                  report.sources[k].url = promptOut.articles[k]
           /\ Len(report.sources) = MinOf(E, 50)
           /\ report.newsCount = E
           /\ (Len(promptNews) = 5 /\ E = 3) =>
                  Len(report.sources) = 3 /\ report.newsCount = 3

\* C25 witness: of 5 articles 2 have a link outside news.naver.com and 3
\* are enriched; the report has 3 sources and newsCount 3
C25_Witness ==
    /\ promptPc = "done"
    /\ ~promptReport.rejected
    /\ Len(promptNews) = 5
    /\ Cardinality({k \in 1..5 : promptCalls[k].host = "other"}) = 2
    /\ EnrichedUpTo(promptNews, 5) = 3
    /\ Len(promptReport.value.sources) = 3
    /\ promptReport.value.newsCount = 3

----------------------------------------------------------------------------
(* Claims about the rate information of the prompt (SpecPipe) *)

\* the snapshot is the all-zero one: every rate and the change 0, no time
AllZero(rate) ==
    /\ rate.usd = 0 /\ rate.jpy = 0 /\ rate.eur = 0 /\ rate.cny = 0
    /\ rate.usdChange = 0
    /\ rate.time = ""

\* C23 as stated: the prompt leaves the rate information out when the
\* snapshot is all-zero and carries it for every snapshot that is not.
C23_Original ==
    pipePrompt # NoPrompt => (pipePrompt.rateInfo <=> ~AllZero(currentRate))

\* C23: the prompt carries the rate information exactly when the USD rate
\* of the snapshot is above 0; the all-zero snapshot is left out, and so is
\* a snapshot that holds other rates or a time but no USD rate.
C23_RateInfoByUsd ==
    pipePrompt # NoPrompt =>
        /\ pipePrompt.rateInfo <=> currentRate.usd > 0
        /\ AllZero(currentRate) => ~pipePrompt.rateInfo

\* C23 witness: the listing had the JPY row and no USD row; the prompt is
\* built without the rate information
C23_Witness ==
    /\ pipePrompt # NoPrompt
    /\ currentRate.usd = 0
    /\ currentRate.jpy = 1
    /\ currentRate.time # ""
    /\ ~pipePrompt.rateInfo

----------------------------------------------------------------------------
(* Claims about the parse of the rate listing (SpecRate) *)

\* C24 as stated: for every instrument parsed, by either route, the change
\* is not above 0 when its row carries the down class and not below 0
\* otherwise, whatever the sign of the number in the row; and the trend is
\* up with the up class, else down with the down class, else stable.
C24_Original ==
    ratePc \in {"analyze", "rate"} =>
        \A k \in 1..Len(rateParsed) :
            LET row == rateParsed[k].row
                parsed == rateParsed[k].parsed
                isUp == row.cls \in {"point_up", "point_up point_dn"}
                isDown == row.cls \in {"point_dn", "point_up point_dn"}
            IN /\ isDown => parsed.change <= 0
               /\ ~isDown => parsed.change >= 0
               /\ parsed.trend = IF isUp THEN "up" ELSE IF isDown THEN "down" ELSE "stable"

----------------------------------------------------------------------------
(* Claims about the termination of the crawl loop (SpecCrawlFair) *)

\* the least number of batches of b items that hold n items
CeilDiv(n, b) == (n + b - 1) \div b

\* C26: when every fetch that is issued settles, the crawl loop ends, and
\* it has then run exactly ceil(N / batchSize) batches, N the length of the
\* list; and as long as a fetch of the batch has not settled no step pushes
\* the batch, moves to the next one or leaves the loop, nothing but the
\* settling of a fetch being possible.
C26_Termination ==
    /\ <>[](/\ crawlPc = "done"
            /\ batchStart = CeilDiv(Len(uniqueNews), batchSize) * batchSize
            /\ Len(crawledNews) = Len(uniqueNews))
    /\ [][(crawlPc = "fetching" /\ InFlight(crawlResults) > 0) =>
              /\ crawlPc' = "fetching"
              /\ crawledNews' = crawledNews
              /\ batchStart' = batchStart
              /\ InFlight(crawlResults') = InFlight(crawlResults) - 1]_vars

\* C26 witness: a list of 7 articles has been through the loop in 2 batches
C26_Witness ==
    /\ crawlPc = "done"
    /\ Len(uniqueNews) = 7
    /\ batchStart = 2 * batchSize
    /\ Len(crawledNews) = 7

----------------------------------------------------------------------------
(* Claims about the order of the phases of a run (SpecPipe) *)

\* a search of the run has rejected: the aggregation fails
AggregationFailed ==
    \E k \in DOMAIN pipeSearch :
        pipeSearch[k] # Pending /\ pipeSearch[k].promise.rejected

\* C30: the completion call is issued in one step of the run only, the one
\* that ends the crawl loop, with every article of the list enriched and
\* pushed, and no later step of the run issues it again; an article fetch
\* is issued only from the crawl phase, entered with every search and the
\* listing fetch settled and the deduplicated list built; and a run in which
\* a search rejected issues no article fetch and no completion call, builds
\* no prompt, and is answered with the failure.
C30_PhaseOrdering ==
    /\ [][ /\ ("openai" \notin pipeCalls /\ "openai" \in pipeCalls') =>
                  /\ pipePc = "crawl"
                  /\ pipePc' = "generate"
                  /\ Len(pipeCrawled') = Len(pipeUnique)
                  /\ pipeCompletion' = NoCompletion
           /\ pipePc' = "generate" => (pipePc \in {"crawl", "generate"} /\ "openai" \in pipeCalls')
           /\ pipePc = "generate" => pipeCalls' = pipeCalls
           /\ pipePc = "done" => (pipePc' = "done" /\ pipeCalls' = pipeCalls)
           /\ pipeCompletion' # pipeCompletion =>
                  (pipePc = "generate" /\ pipeCompletion = NoCompletion)
           /\ ("article" \notin pipeCalls /\ "article" \in pipeCalls') =>
                  /\ pipePc = "crawl"
                  /\ ~SearchInFlight
                  /\ pipeSearch = <<>>
                  /\ ~pipeFinance.promise.rejected
           /\ pipePc' = "crawl" =>
                  \/ pipePc = "crawl"
                  \/ /\ pipePc = "search"
                     /\ ~SearchInFlight
                     /\ ~AggregationFailed]_vars
    /\ [](AggregationFailed =>
              /\ pipeCalls \cap {"article", "openai"} = {}
              /\ pipePc \in {"search", "done"}
              /\ pipeCrawled = <<>>
              /\ pipePrompt = NoPrompt
              /\ pipeCompletion = NoCompletion
              /\ (pipePc = "done" => (pipeResp.sent /\ ~pipeResp.success)))

\* C30 witness: a run has ended with a report after article fetches and the
\* completion call
C30_Witness ==
    /\ pipePc = "done"
    /\ pipeResp.sent
    /\ pipeResp.success
    /\ {"article", "openai"} \subseteq pipeCalls
    /\ Len(pipeCrawled) >= 1
    /\ pipeCompletion # NoCompletion

----------------------------------------------------------------------------
(* Claims about what a failed run leaves in the cache (SpecPipe) *)

\* the run has ended on a primary search error, a configuration error or a
\* generation error: a search rejected, the key is not configured, or the
\* completion call rejected or gave no parseable JSON object
RunFailed ==
    /\ pipePc = "done"
    /\ \/ \E k \in DOMAIN pipeSearch :
              pipeSearch[k] # Pending /\ pipeSearch[k].promise.rejected
       \/ pipeKey # "unread" /\ KeyNotConfigured(pipeKey)
       \/ pipeCompletion # NoCompletion /\ pipeCompletion.rejected
       \/ CompletionIs({"absent", "non-json"})

\* C27 as stated: a run that ends on a primary search error, a configuration
\* error or a generation error under a non-refresh get is answered with the
\* failure and stores nothing, the tag having no entry after it as before
\* it, so that the next get finds no entry and no partial value.
C27_Original ==
    RunFailed =>
        /\ ~pipeResp.success
        /\ pipeStored = NoEntry

----------------------------------------------------------------------------
(* Claims about the cached flag (Spec) *)

\* C29 as stated: the cached flag of a success response is false whenever
\* the request ran the pipeline, under refresh=true or not.
C29_Original ==
    [][\A s \in Slots :
          (req[s].pc = "run" /\ Free(s)' /\ sub' = sub + 1) => ~isCached']_vars


====
